---- MODULE Spec2Model ----
(***************************************************************************)
(* Model of the UI-automation engine of SALATasksAIAgent:                  *)
(*   - scroll_to_load_all (auto_download_county_file_sharepoint.py), the   *)
(*     lazy-load exhauster of the SharePoint file list;                    *)
(*   - select_county (final_working_downloader_auto.py), the bounded-retry *)
(*     selection loop of the Power BI county slicer.                       *)
(* Time is counted in ticks of 0.1 s; a driver call takes no time, only    *)
(* time.sleep and the deadlines computed from time.time() advance it.      *)
(***************************************************************************)
EXTENDS Integers, Sequences, FiniteSets, TLC

VARIABLES
    \* ---- scroll_to_load_all -------------------------------------------
    sc_pc,             \* "start" | "loop" | "reset" | "done"
    listKind,          \* "static": N items in pages; "volatile": rows recycled at will
    total,             \* N, the items of the static list
    pageSize,          \* items materialized by one scroll page
    loaded,            \* rows in the DOM now (what _count_file_items returns)
    container,         \* TRUE iff _find_scrollable_container returned an element
    i,                 \* scroll attempts made by the running call
    consecutive_same,  \* the call's local of that name
    prev_count,        \* the call's local of that name (last attempt)
    new_count,         \* the call's local of that name (last attempt)
    surfaceTop,        \* scroll offset of the scrolled surface, in 600 px steps
    windowScripts,     \* history: window.scrollBy / window.scrollTo scripts of this call
    run,               \* which call of scroll_to_load_all is running (1, 2, ...)
    unchangedRun,      \* history: trailing attempts whose count was unchanged
    prevStreak,        \* history: unchangedRun as it was before the last attempt
    regressed,         \* history: some attempt of this call saw the count decrease
    exitReason,        \* history: "none" | "stable" | "ceiling"
    startedFull,       \* history: the call began on a fully materialized static list
    reported,          \* history: the count the call printed with "All content loaded"
    prevFull,          \* history: startedFull of the call before this one
    prevAttempts,      \* history: attempts made by the call before this one
    prevReported,      \* history: count printed by the call before this one
    \* ---- select_county ------------------------------------------------
    pc,                \* position in select_county
    now,               \* time.time(), in ticks of 0.1 s since the call began
    endT,              \* end = time.time() + timeout
    frame,             \* the driver's frame context: "top" | "powerbi"
    current_value,     \* the call's local of that name
    selected_value,    \* the call's local of that name
    typed,             \* the call's local of that name
    clicked,           \* the call's local of that name
    listbox_clicked,   \* the call's local of that name
    lbLeft,            \* displayed listboxes scroll_listbox_and_click has yet to visit
    success,           \* the call's local of that name
    attempt,           \* the call's local of that name
    result,            \* "none" until the call returns, then "True" | "False"
    sawTarget,         \* history: some read of the displayed value contained the target
    cycleSawTarget,    \* history: some verification read of this cycle contained it
    onlyNotFound,      \* history: every cycle so far entered the iframe and found no slicer
    waitOutcome,       \* history: how the last wait_for_selected_value ended
    waitRead,          \* history: the text its last pass read (NotRead before one)
    waitPolled,        \* history: a text it read and went on polling after (NotRead if none)
    \* ---- find_and_click_file -------------------------------------------
    dom,               \* the page: its elements in document order
    m_pc,              \* position in find_and_click_file
    m_result,          \* "none" until the call returns, then "True" | "False"
    clicks,            \* history: indices of the elements a click was delivered to
    pass1Failed,       \* history: strategy 1 ended by a raised script or a thrown click
    \* ---- safe_click, called from click_search_icon_if_present ----------
    c_pc,              \* position in the caller's loop and in safe_click
    c_left,            \* elements the caller's loops have yet to visit
    c_clicked,         \* the caller's local clicked
    c_scrolled,        \* this call: "none" | "ok" | "raised" for scrollIntoView
    c_native,          \* this call: "none" | "ok" | "raised" for element.click()
    c_script,          \* this call: "none" | "ok" | "raised" for arguments[0].click()
    c_nativeN,         \* history: native clicks this call attempted
    c_scriptN,         \* history: script clicks this call attempted
    c_log,             \* history: one record per returned call
    \* ---- main (auto) and download_all_files_from_sharepoint ------------
    s_prog,            \* which of the two runs: "auto" | "sharepoint" | "none"
    s_pc,              \* position in it
    s_n,               \* len(target_counties) / len(target_filenames)
    s_idx,             \* 1-based index of the target the loop is at (0 before it)
    s_selected,        \* main's local selected
    s_links,           \* main's links_data: how many county and city links
    s_attempts,        \* history: the targets the loop body was entered for, in order
    s_verified,        \* history: targets for which select_county returned True
    s_written,         \* history: files written, as [order, city] (city 0: the county file)
    s_aborted,         \* history: the outer except clause ran
    s_view,            \* the page the browser shows: "list" (the file list) | "file"
    s_session,         \* the browser: "none" | "open" | "quit"
    s_driver,          \* the local driver is bound to the browser (not None)
    s_quits,           \* history: calls of driver.quit()
    \* ---- wait_for_download_complete and the download directory ---------
    w_pc,              \* position in wait_for_download_complete
    w_now,             \* time.time(), in ticks of 0.1 s since the call began
    w_end,             \* end_time
    w_files,           \* the directory: per file "absent" | "part" (*.crdownload) |
                       \*   "empty" (a *.png of size 0) | "full" (a *.png of size > 0)
    w_order,           \* the *.png files by os.path.getmtime, oldest first
    w_snapshot,        \* history: the files in the directory when the download was triggered
    w_started,         \* history: the browser has begun to write the triggered download
    w_result,          \* "none" until the call returns, then "None" or the file returned
    w_partAtReturn,    \* history: a *.crdownload existed when a file was returned
    \* ---- wait_for_links and get_sharepoint_links_from_powerbi ----------
    l_pc,              \* position in wait_for_links
    l_now,             \* time.time(), in ticks of 0.1 s since the call began
    l_end,             \* end
    l_prev,            \* previous_total
    l_frame,           \* the driver's frame context: "top" | "powerbi"
    l_links,           \* links: what the last get_sharepoint_links_from_powerbi returned
    l_best,            \* best
    l_result,          \* what wait_for_links returned (NoHarvest before it returns)
    l_how,             \* history: "none" | "changed" | "timeout" | "noIframe" |
                       \*   "raisedSwitch" | "raisedHarvest"
    l_harvests,        \* history: calls of get_sharepoint_links_from_powerbi so far
    l_scripts,         \* history: extraction scripts the last of them executed
    \* ---- load_target_counties ------------------------------------------
    t_pc,              \* "idle" | "call" | "done"
    t_env,             \* the environment's SALA_COUNTIES (Unset when not set)
    t_result,          \* what load_target_counties returned
    \* ---- convert_zip_pdfs_to_png: main and convert_pdf_to_pngs ----------
    cv_pc,             \* position in main
    cv_pdfs,           \* pdfs, in sorted order: the number of pages of each
    cv_i,              \* position of pdf in pdfs
    cv_total_written,  \* total_written
    cv_start_index,    \* start_index of the running convert_pdf_to_pngs
    cv_written,        \* written of the running convert_pdf_to_pngs
    cv_page_num,       \* page_num
    cv_log,            \* history: one entry per pix.save, in order
    cv_removed,        \* history: positions of the PDFs os.remove deleted
    \* ---- _find_scrollable_container -------------------------------------
    fc_pc,             \* "idle" | "call" | "done"
    fc_page,           \* the page the script runs on
    fc_result,         \* what the script returned
    \* ---- find_county_slicer ---------------------------------------------
    fs_pc,             \* "idle" | "call" | "done" | "raised"
    fs_page,           \* the elements of the iframe's document, in document order
    fs_result,         \* position of the element returned, 0 for None
    fs_how,            \* history: the heuristic that yielded it (9: text fallback, 0: none)
    \* ---- WorkflowGuide.run_workflow (workflow_startup.py) ---------------
    g_pc,              \* "idle" | "step" (the step body is next) | "nav" | "done"
    current_step,      \* self.current_step
    completed_steps,   \* self.completed_steps
    g_choice,          \* history: the last choice get_user_input returned ("none" before)
    g_from,            \* history: current_step when that choice was handled (0 before)
    \* ---- WorkflowGuide.offer_to_replace_sample_report -------------------
    o_pc,              \* "idle" | "check" | "ask" | "backup" | "replace" | "done"
    o_sep,             \* os.linesep of the platform
    o_sample,          \* the bytes of 'monthly report sample.txt' (NoFile: missing)
    o_updated,         \* the bytes of monthly_report_updated.txt
    o_backup,          \* the bytes of 'monthly report sample.txt.backup'
    o_old_content,     \* old_content
    o_new_content,     \* new_content
    o_answer,          \* what input() returned
    o_sample0,         \* history: the sample file when the call began
    o_backup0,         \* history: the backup file when the call began
    o_events           \* history: the writes that completed, in order

scrollVars == <<sc_pc, listKind, total, pageSize, loaded, container, i,
                consecutive_same, prev_count, new_count, surfaceTop, windowScripts, run,
                unchangedRun, prevStreak, regressed, exitReason, startedFull,
                reported, prevFull, prevAttempts, prevReported>>

selVars == <<pc, now, endT, frame, current_value, selected_value,
             typed, clicked, listbox_clicked, lbLeft, success,
             attempt, result, sawTarget, cycleSawTarget,
             onlyNotFound, waitOutcome, waitRead, waitPolled>>

matchVars == <<dom, m_pc, m_result, clicks, pass1Failed>>

\* the variables of the operations modelled after scroll_to_load_all and
\* select_county
clickVars == <<c_pc, c_left, c_clicked, c_scrolled, c_native, c_script,
               c_nativeN, c_scriptN, c_log>>

sessionVars == <<s_prog, s_pc, s_n, s_idx, s_selected, s_links, s_attempts,
                 s_verified, s_written, s_aborted, s_view, s_session,
                 s_driver, s_quits>>

waitVars == <<w_pc, w_now, w_end, w_files, w_order, w_snapshot, w_started,
              w_result, w_partAtReturn>>

linkVars == <<l_pc, l_now, l_end, l_prev, l_frame, l_links, l_best, l_result,
              l_how, l_harvests, l_scripts>>

targetVars == <<t_pc, t_env, t_result>>

convVars == <<cv_pc, cv_pdfs, cv_i, cv_total_written, cv_start_index, cv_written,
              cv_page_num, cv_log, cv_removed>>

locatorVars == <<fc_pc, fc_page, fc_result>>

slicerVars == <<fs_pc, fs_page, fs_result, fs_how>>

guideVars == <<g_pc, current_step, completed_steps, g_choice, g_from>>

offerVars == <<o_pc, o_sep, o_sample, o_updated, o_backup, o_old_content,
               o_new_content, o_answer, o_sample0, o_backup0, o_events>>

extraVars == <<targetVars, convVars, locatorVars, slicerVars, guideVars, offerVars>>

coreVars == <<scrollVars, selVars, matchVars, clickVars, sessionVars, waitVars, linkVars>>

notTargetVars == <<convVars, locatorVars, slicerVars, guideVars, offerVars>>
notConvVars == <<targetVars, locatorVars, slicerVars, guideVars, offerVars>>
notLocatorVars == <<targetVars, convVars, slicerVars, guideVars, offerVars>>
notSlicerVars == <<targetVars, convVars, locatorVars, guideVars, offerVars>>
notGuideVars == <<targetVars, convVars, locatorVars, slicerVars, offerVars>>
notOfferVars == <<targetVars, convVars, locatorVars, slicerVars, guideVars>>

restVars == <<matchVars, clickVars, sessionVars, waitVars, linkVars, extraVars>>

vars == <<scrollVars, selVars, restVars>>

\* find_and_click_file is not running
MatchIdle ==
    /\ dom = <<>>
    /\ m_pc = "idle"
    /\ m_result = "none"
    /\ clicks = {}
    /\ pass1Failed = FALSE

\* no call of safe_click has begun
NoClickCall ==
    /\ c_scrolled = "none"
    /\ c_native = "none"
    /\ c_script = "none"
    /\ c_nativeN = 0
    /\ c_scriptN = 0

\* click_search_icon_if_present is not running
ClickIdle ==
    /\ c_pc = "idle"
    /\ c_left = 0
    /\ c_clicked = FALSE
    /\ NoClickCall
    /\ c_log = <<>>

NoLinks == [county |-> 0, city |-> 0]

\* neither main nor download_all_files_from_sharepoint is running
SessionIdle ==
    /\ s_prog = "none"
    /\ s_pc = "idle"
    /\ s_n = 0
    /\ s_idx = 0
    /\ s_selected = FALSE
    /\ s_links = NoLinks
    /\ s_attempts = <<>>
    /\ s_verified = {}
    /\ s_written = {}
    /\ s_aborted = FALSE
    /\ s_view = "list"
    /\ s_session = "none"
    /\ s_driver = FALSE
    /\ s_quits = 0

\* wait_for_download_complete is not running
WaitIdle ==
    /\ w_pc = "idle"
    /\ w_now = 0
    /\ w_end = 0
    /\ w_files = <<>>
    /\ w_order = <<>>
    /\ w_snapshot = {}
    /\ w_started = FALSE
    /\ w_result = "none"
    /\ w_partAtReturn = FALSE

\* {"county": [], "city": []}
EmptyLinks == [county |-> <<>>, city |-> <<>>]

\* wait_for_links is not running
LinksIdle ==
    /\ l_pc = "idle"
    /\ l_now = 0
    /\ l_end = 0
    /\ l_prev = 0
    /\ l_frame = "top"
    /\ l_links = EmptyLinks
    /\ l_best = EmptyLinks
    /\ l_result = EmptyLinks
    /\ l_how = "none"
    /\ l_harvests = 0
    /\ l_scripts = 0

\* load_target_counties is not running
TargetsIdle ==
    /\ t_pc = "idle"
    /\ t_env = <<>>
    /\ t_result = <<>>

\* the PDF converter is not running
ConvIdle ==
    /\ cv_pc = "idle"
    /\ cv_pdfs = <<>>
    /\ cv_i = 0
    /\ cv_total_written = 0
    /\ cv_start_index = 0
    /\ cv_written = 0
    /\ cv_page_num = 0
    /\ cv_log = <<>>
    /\ cv_removed = {}

\* return null
NoContainer == [kind |-> "none", at |-> 0]

\* a page without rows, ancestors or candidates
BlankPage == [row |-> FALSE, chain |-> <<>>, bodyOverflowY |-> "visible", cands |-> <<>>]

\* _find_scrollable_container is not running
LocatorIdle ==
    /\ fc_pc = "idle"
    /\ fc_page = BlankPage
    /\ fc_result = NoContainer

\* find_county_slicer is not running
SlicerIdle ==
    /\ fs_pc = "idle"
    /\ fs_page = <<>>
    /\ fs_result = 0
    /\ fs_how = 0

\* run_workflow is not running
GuideIdle ==
    /\ g_pc = "idle"
    /\ current_step = 0
    /\ completed_steps = {}
    /\ g_choice = "none"
    /\ g_from = 0

\* offer_to_replace_sample_report is not running
OfferIdle ==
    /\ o_pc = "idle"
    /\ o_sep = <<>>
    /\ o_sample = <<>>
    /\ o_updated = <<>>
    /\ o_backup = <<>>
    /\ o_old_content = <<>>
    /\ o_new_content = <<>>
    /\ o_answer = <<>>
    /\ o_sample0 = <<>>
    /\ o_backup0 = <<>>
    /\ o_events = <<>>

ExtraIdle ==
    TargetsIdle /\ ConvIdle /\ LocatorIdle /\ SlicerIdle /\ GuideIdle /\ OfferIdle

RestIdle == MatchIdle /\ ClickIdle /\ SessionIdle /\ WaitIdle /\ LinksIdle /\ ExtraIdle

Min(a, b) == IF a < b THEN a ELSE b

(***************************************************************************)
(* Bounds of the model                                                     *)
(***************************************************************************)
MaxItems == 23       \* largest static list
MaxPageSize == 2     \* largest page of a static list
MaxVolatile == 3     \* largest row count of a volatile (recycling) list
MaxRuns == 2         \* successive calls of scroll_to_load_all
MaxListboxes == 1    \* displayed listboxes one scroll_listbox_and_click visits
SelectTimeout == 100  \* timeout argument of select_county, in ticks (default: 300)

(***************************************************************************)
(* Texts: sequences of one-character strings, so that strip(), lower() and *)
(* the substring test "in" are computed as Python computes them.           *)
(***************************************************************************)
UpperCase == <<"A","B","C","D","E","F","G","H","I","J","K","L","M",
               "N","O","P","Q","R","S","T","U","V","W","X","Y","Z">>
LowerCase == <<"a","b","c","d","e","f","g","h","i","j","k","l","m",
               "n","o","p","q","r","s","t","u","v","w","x","y","z">>

\* the lower-case letter of each upper-case letter
LowerMap ==
    [u \in {UpperCase[k] : k \in 1..26} |->
        LowerCase[CHOOSE k \in 1..26 : UpperCase[k] = u]]

LowerChar(c) == IF c \in DOMAIN LowerMap THEN LowerMap[c] ELSE c

\* str.lower()
Lower(s) == [k \in 1..Len(s) |-> LowerChar(s[k])]

\* str.strip(): leading and trailing blanks removed
RECURSIVE Strip(_)
Strip(s) ==
    IF s = <<>> THEN s
    ELSE IF Head(s) = " " THEN Strip(Tail(s))
    ELSE IF s[Len(s)] = " " THEN Strip(SubSeq(s, 1, Len(s) - 1))
    ELSE s

\* needle in hay
Contains(hay, needle) ==
    \E k \in 0..(Len(hay) - Len(needle)) : SubSeq(hay, k + 1, k + Len(needle)) = needle

T_Empty == <<>>
NotRead == <<"<not read>">>
T_All == <<"A","l","l">>
T_AllPadded == <<" ","A","L","L"," ">>
T_Alameda == <<"A","l","a","m","e","d","a">>
T_AlamedaCounty == <<"A","l","a","m","e","d","a"," ","C","o","u","n","t","y">>
T_SanMateo == <<"S","a","n"," ","M","a","t","e","o">>

\* county_name of the call
Target == T_Alameda

\* what the slicer's value element may show when it is read; T_Empty also stands for no
\* displayed element and for a failed query
RawTexts == {T_Empty, T_All, T_AllPadded, T_AlamedaCounty, T_SanMateo}

(***************************************************************************)
(* select_county: constants, in ticks of 0.1 s                             *)
(***************************************************************************)
PollSleep == 10          \* time.sleep(1) after a cycle that could not start
OpenSleep == 5           \* time.sleep(0.5) after the slicer click
SearchIconSleep == 3     \* time.sleep(0.3) after the global search icon
DeselectSleep == 2       \* time.sleep(0.2) after clicking "All" / "Select all"
SearchClearSleep == 3    \* time.sleep(0.3) in type_search_in_popup
OptionWait == 40         \* wait_for_option_in_popup(..., timeout=4)
OptionPoll == 2          \* time.sleep(0.2) in wait_for_option_in_popup
AfterOptionSleep == 2    \* time.sleep(0.2) after wait_for_option_in_popup
ComboSleep == 3          \* time.sleep(0.3) after typing into the combo box
ClickSleep == 4          \* time.sleep(0.4) after the option click
ListboxPoll == 2         \* time.sleep(0.2) in click_matching_item_in_listbox
ListboxPasses == 8       \* for _ in range(8)
ReselectSleep == 3       \* time.sleep(0.3) after select_first_filtered_option
SelectedWait == 60       \* wait_for_selected_value(..., timeout=6)
SelectedPoll == 3        \* time.sleep(0.3) in wait_for_selected_value
RetrySleep == 10         \* time.sleep(1) after a failed verification

\* passes of "while time.time() < end: ...; time.sleep(poll)" that start
\* before a deadline of wait ticks
PassesWithin(wait, poll) == (wait + poll - 1) \div poll

\* while time.time() < end
DeadlineInclusive(t, e) == t <= e
DeadlineOpen(t, e) == t < e

\* current_selected_value: the stripped text of the displayed value element, "" if none
CurrentSelectedValue(raw) == Strip(raw)

\* "value and county_name.lower() in value.lower()"
VerifiedCaseSensitive(value, county) == value # T_Empty /\ Contains(value, Lower(county))
Verified(value, county) == value # T_Empty /\ Contains(Lower(value), Lower(county))

\* "value.strip().lower() == 'all'"
IsAll(value) == value # T_Empty /\ Lower(Strip(value)) = <<"a","l","l">>

\* one pass of the loop of wait_for_selected_value on the text it read
WaitVerdictChangeIsSuccess(selected, previous, county) ==
    IF Verified(selected, county) THEN "True"
    ELSE IF previous # T_Empty /\ selected # T_Empty /\ selected # previous THEN "True"
    ELSE "sleep"
WaitVerdictIgnoresChange(selected, previous, county) ==
    IF Verified(selected, county) THEN "True" ELSE "sleep"
WaitVerdict(selected, previous, county) ==
    IF Verified(selected, county) THEN "True"
    ELSE IF previous # T_Empty /\ selected # T_Empty /\ selected # previous THEN "False"
    ELSE "sleep"

\* lines 1066-1067 and 1070-1071: "time.sleep(1); continue" goes back to the
\* test of the while loop
AfterContinueSkipsTest == "locate"
AfterContinue == "loopTest"

\* switch_to_powerbi_iframe: default_content(), then the first iframe whose src
\* names app.powerbi.com; reading src of an iframe that was re-rendered raises
IframeOutcomes == {"entered", "missing", "raise"}
FrameAfterSwitch(outcome) == IF outcome = "entered" THEN "powerbi" ELSE "top"

\* locals that the next cycle assigns before it reads them
CycleLocalsCleared ==
    /\ current_value' = T_Empty
    /\ selected_value' = T_Empty
    /\ typed' = FALSE
    /\ clicked' = FALSE
    /\ listbox_clicked' = FALSE
    /\ lbLeft' = 0

SelectIdle ==
    /\ pc = "idle"
    /\ now = 0
    /\ endT = 0
    /\ frame = "top"
    /\ current_value = T_Empty
    /\ selected_value = T_Empty
    /\ typed = FALSE
    /\ clicked = FALSE
    /\ listbox_clicked = FALSE
    /\ lbLeft = 0
    /\ success = FALSE
    /\ attempt = 0
    /\ result = "none"
    /\ sawTarget = FALSE
    /\ cycleSawTarget = FALSE
    /\ onlyNotFound = TRUE
    /\ waitOutcome = "none"
    /\ waitRead = NotRead
    /\ waitPolled = NotRead

\* lines 1055-1063
SelEntry ==
    /\ pc = "entry"
    /\ \E o \in IframeOutcomes :
         /\ frame' = FrameAfterSwitch(o)
         /\ IF o = "entered"
            THEN /\ pc' = "loopTest"
                 /\ endT' = now + SelectTimeout
                 /\ UNCHANGED <<result, onlyNotFound>>
            ELSE /\ pc' = IF o = "missing" THEN "done" ELSE "raised"
                 /\ result' = IF o = "missing" THEN "False" ELSE result
                 /\ onlyNotFound' = FALSE
                 /\ UNCHANGED endT
    /\ success' = FALSE
    /\ attempt' = 0
    /\ UNCHANGED <<now, current_value, selected_value, typed, clicked,
                   listbox_clicked, lbLeft, sawTarget,
                   cycleSawTarget, waitOutcome, waitRead, waitPolled>>

\* line 1064: while time.time() < end
SelLoopTest ==
    /\ pc = "loopTest"
    /\ IF DeadlineOpen(now, endT)
       THEN pc' = "locate"
       ELSE pc' = "exit"
    /\ cycleSawTarget' = FALSE
    /\ waitOutcome' = "none"
    /\ waitRead' = NotRead
    /\ waitPolled' = NotRead
    /\ UNCHANGED <<now, endT, frame, current_value, selected_value, typed, clicked, listbox_clicked, lbLeft, success,
                   attempt, result, sawTarget, onlyNotFound>>

\* lines 1074-1076: break when the value shown contains the target
AfterLocateAlwaysOpens(shown) == "open"

AfterLocate(shown) == IF shown THEN "exit" ELSE "open"

\* lines 1065-1076: enter the iframe, find the slicer, read the shown value
SelLocate ==
    /\ pc = "locate"
    /\ \E o \in IframeOutcomes, slicer \in {"found", "none", "raise"} :
         /\ frame' = FrameAfterSwitch(o)
         /\ IF o = "raise" \/ (o = "entered" /\ slicer = "raise")
            THEN /\ pc' = "raised"
                 /\ onlyNotFound' = FALSE
                 /\ UNCHANGED <<now, current_value, success, sawTarget>>
            ELSE IF o = "missing" \/ slicer = "none"
            THEN /\ pc' = AfterContinue
                 /\ now' = now + PollSleep
                 /\ onlyNotFound' = (onlyNotFound /\ o = "entered")
                 /\ UNCHANGED <<current_value, success, sawTarget>>
            ELSE /\ \E raw \in RawTexts : current_value' = CurrentSelectedValue(raw)
                 /\ onlyNotFound' = FALSE
                 /\ sawTarget' = (sawTarget \/ Verified(current_value', Target))
                 /\ success' = Verified(current_value', Target)
                 /\ pc' = AfterLocate(success')
                 /\ UNCHANGED now
    /\ UNCHANGED <<endT, selected_value, typed, clicked,
                   listbox_clicked, lbLeft, attempt, result,
                   cycleSawTarget, waitOutcome, waitRead, waitPolled>>

\* lines 1078-1086: click the slicer, clear a stale selection; an error raised
\* inside click_clear_if_present abandons the cycle after a further sleep
SelOpen ==
    /\ pc = "open"
    /\ \E raised \in BOOLEAN :
         IF raised
         THEN /\ now' = now + OpenSleep + PollSleep
              /\ pc' = "loopTest"
              /\ CycleLocalsCleared
         ELSE /\ now' = now + OpenSleep
              /\ pc' = "prepare"
              /\ UNCHANGED <<current_value, selected_value, typed,
                             clicked, listbox_clicked, lbLeft>>
    /\ UNCHANGED <<endT, frame, success, attempt, result, sawTarget,
                   cycleSawTarget, onlyNotFound, waitOutcome, waitRead, waitPolled>>

\* lines 1088-1106: popup id (aria-controls or aria-owns of the slicer, None
\* when it has neither), reveal the search input; lines 1108 and 1113 skip
\* the deselecting calls when popup_id is None. current_value is not read
\* again after line 1108 before the next cycle assigns it
SelPrepare ==
    /\ pc = "prepare"
    /\ \E popup_id \in BOOLEAN, iconClicked \in BOOLEAN :
         /\ now' = now + (IF iconClicked THEN SearchIconSleep ELSE 0)
         /\ pc' = IF popup_id THEN "deselect" ELSE "search"
         /\ current_value' = IF popup_id THEN current_value ELSE T_Empty
    /\ UNCHANGED <<endT, frame, selected_value, typed, clicked,
                   listbox_clicked, lbLeft, success, attempt, result,
                   sawTarget, cycleSawTarget, onlyNotFound, waitOutcome, waitRead, waitPolled>>

\* lines 1108-1115, with a popup id: force_click_option_exact on "All" or
\* "Select all" when the value shown is "all", then deselect_select_all_in_popup
SelDeselect ==
    /\ pc = "deselect"
    /\ \E allClicked \in BOOLEAN :
         now' = now + (IF IsAll(current_value) /\ allClicked THEN DeselectSleep ELSE 0)
    /\ current_value' = T_Empty
    /\ pc' = "search"
    /\ UNCHANGED <<endT, frame, selected_value, typed, clicked,
                   listbox_clicked, lbLeft, success, attempt, result,
                   sawTarget, cycleSawTarget, onlyNotFound, waitOutcome, waitRead, waitPolled>>

\* line 1118, type_search_in_popup: the clearing script may raise (no sleep),
\* the input may be missing after the sleep, or the name is typed
SelSearch ==
    /\ pc = "search"
    /\ \E o \in {"scriptRaised", "noInput", "typed"} :
         /\ typed' = (o = "typed")
         /\ now' = now + (IF o = "scriptRaised" THEN 0 ELSE SearchClearSleep)
    /\ pc' = "waitOption"
    /\ UNCHANGED <<endT, frame, current_value, selected_value, clicked,
                   listbox_clicked, lbLeft, success, attempt, result, sawTarget, cycleSawTarget, onlyNotFound, waitOutcome, waitRead, waitPolled>>

\* lines 1121-1122, wait_for_option_in_popup (its result is not used): the
\* option is found, or the script raises, in pass k + 1 after k sleeps, or
\* all passes before the deadline sleep; then time.sleep(0.2)
SelWaitOption ==
    /\ pc = "waitOption"
    /\ \E k \in 0..PassesWithin(OptionWait, OptionPoll) :
         now' = now + k * OptionPoll + AfterOptionSleep
    /\ pc' = "combo"
    /\ UNCHANGED <<endT, frame, current_value, selected_value, typed, clicked,
                   listbox_clicked, lbLeft, success, attempt, result, sawTarget,
                   cycleSawTarget, onlyNotFound, waitOutcome, waitRead, waitPolled>>

\* lines 1124-1129: fall back to typing into the combo box; typed is not
\* read again before the next cycle assigns it
SelCombo ==
    /\ pc = "combo"
    /\ \E typed_combobox \in (IF typed THEN {FALSE} ELSE BOOLEAN) :
         now' = now + (IF typed_combobox THEN ComboSleep ELSE 0)
    /\ typed' = FALSE
    /\ pc' = "clickOption"
    /\ UNCHANGED <<endT, frame, current_value, selected_value,
                   clicked, listbox_clicked, lbLeft, success, attempt,
                   result, sawTarget, cycleSawTarget, onlyNotFound, waitOutcome, waitRead, waitPolled>>

\* lines 1131-1137: ensure_option_clicked, else select_first_filtered_option
SelClickOption ==
    /\ pc = "clickOption"
    /\ \E c \in BOOLEAN, n \in 0..MaxListboxes :
         /\ clicked' = c
         /\ now' = now + (IF c THEN ClickSleep ELSE 0)
         /\ lbLeft' = n
    /\ pc' = "listbox"
    /\ UNCHANGED <<endT, frame, current_value, selected_value, typed,
                   listbox_clicked, success, attempt, result, sawTarget, cycleSawTarget, onlyNotFound, waitOutcome, waitRead, waitPolled>>

\* lines 1138-1140, scroll_listbox_and_click: one displayed listbox per step.
\* listbox.is_displayed() (line 340) is outside any try: a listbox re-rendered
\* since find_elements raises. click_matching_item_in_listbox clicks in pass
\* k (after k - 1 sleeps) or gives up after at most 8 sleeps.
SelListbox ==
    /\ pc = "listbox"
    /\ IF lbLeft = 0
       THEN /\ listbox_clicked' = FALSE
            /\ pc' = "verify"
            /\ UNCHANGED <<now, lbLeft>>
       ELSE \E o \in {"stale", "clicked", "noMatch"}, k \in 0..ListboxPasses :
              IF o = "stale"
              THEN /\ pc' = "raised"
                   /\ UNCHANGED <<now, lbLeft, listbox_clicked>>
              ELSE IF o = "clicked" /\ k < ListboxPasses
              THEN /\ listbox_clicked' = TRUE
                   /\ now' = now + k * ListboxPoll
                   /\ lbLeft' = 0
                   /\ pc' = "verify"
              ELSE /\ now' = now + k * ListboxPoll
                   /\ lbLeft' = lbLeft - 1
                   /\ listbox_clicked' = FALSE
                   /\ pc' = IF lbLeft = 1 THEN "verify" ELSE "listbox"
    /\ UNCHANGED <<endT, frame, current_value, selected_value, typed,
                   clicked, success, attempt, result, sawTarget, cycleSawTarget, onlyNotFound, waitOutcome, waitRead, waitPolled>>

\* lines 1142-1146: read the displayed value
SelVerify ==
    /\ pc = "verify"
    /\ \E raw \in RawTexts : selected_value' = CurrentSelectedValue(raw)
    /\ sawTarget' = (sawTarget \/ Verified(selected_value', Target))
    /\ cycleSawTarget' = (cycleSawTarget \/ Verified(selected_value', Target))
    /\ pc' = IF clicked /\ IsAll(selected_value') THEN "reselect" ELSE "decide"
    /\ UNCHANGED <<now, endT, frame, current_value, typed, clicked,
                   listbox_clicked, lbLeft, success, attempt, result,
                   onlyNotFound, waitOutcome, waitRead, waitPolled>>

\* lines 1147-1148: the value is still "All": select the first filtered option
SelReselect ==
    /\ pc = "reselect"
    /\ \E keyed \in BOOLEAN :
         IF keyed
         THEN now' = now + ReselectSleep /\ pc' = "reread"
         ELSE now' = now /\ pc' = "decide"
    /\ UNCHANGED <<endT, frame, current_value, selected_value, typed,
                   clicked, listbox_clicked, lbLeft, success, attempt,
                   result, sawTarget, cycleSawTarget, onlyNotFound,
                   waitOutcome, waitRead, waitPolled>>

\* lines 1149-1151: read the displayed value again
SelReread ==
    /\ pc = "reread"
    /\ \E raw \in RawTexts : selected_value' = CurrentSelectedValue(raw)
    /\ sawTarget' = (sawTarget \/ Verified(selected_value', Target))
    /\ cycleSawTarget' = (cycleSawTarget \/ Verified(selected_value', Target))
    /\ pc' = "decide"
    /\ UNCHANGED <<now, endT, frame, current_value, typed, clicked,
                   listbox_clicked, lbLeft, success, attempt, result,
                   onlyNotFound, waitOutcome, waitRead, waitPolled>>

\* lines 1153-1156: success on a verified value, else wait for one if a click
\* was delivered, else retry
SelDecide ==
    /\ pc = "decide"
    /\ IF Verified(selected_value, Target)
       THEN success' = TRUE /\ pc' = "exit"
       ELSE IF clicked \/ listbox_clicked
       THEN pc' = "waitSelected" /\ UNCHANGED success
       ELSE pc' = "retry" /\ UNCHANGED success
    /\ UNCHANGED <<now, endT, frame, current_value, selected_value, typed, clicked, listbox_clicked, lbLeft, attempt, result,
                   sawTarget, cycleSawTarget, onlyNotFound,
                   waitOutcome, waitRead, waitPolled>>

\* lines 466-476 as called at 1156-1162, wait_for_selected_value: k passes
\* read a text on which the loop sleeps; pass k + 1, if it starts before the
\* deadline, reads the text that ends the wait; otherwise the wait times out
SelWaitSelected ==
    /\ pc = "waitSelected"
    /\ \E k \in 0..PassesWithin(SelectedWait, SelectedPoll) :
       \E polled \in IF k = 0 THEN {NotRead}
                     ELSE {CurrentSelectedValue(raw) : raw \in
                            {r \in RawTexts :
                               WaitVerdict(CurrentSelectedValue(r), selected_value, Target)
                                 = "sleep"}} :
         /\ waitPolled' = polled
         /\ now' = now + k * SelectedPoll
         /\ IF k < PassesWithin(SelectedWait, SelectedPoll)
            THEN \E raw \in RawTexts :
                    LET selected == CurrentSelectedValue(raw)
                        verdict == WaitVerdict(selected, selected_value, Target)
                    IN /\ verdict # "sleep"
                       /\ waitRead' = selected
                       /\ sawTarget' = (sawTarget \/ Verified(selected, Target))
                       /\ cycleSawTarget' = (cycleSawTarget \/ Verified(selected, Target))
                       /\ IF verdict = "True"
                          THEN /\ success' = TRUE
                               /\ pc' = "exit"
                               /\ waitOutcome' = "target"
                          ELSE /\ pc' = "retry"
                               /\ waitOutcome' = "changed"
                               /\ UNCHANGED success
            ELSE /\ pc' = "retry"
                 /\ waitOutcome' = "timeout"
                 /\ waitRead' = polled
                 /\ UNCHANGED <<success, sawTarget, cycleSawTarget>>
    /\ UNCHANGED <<endT, frame, current_value, selected_value, typed,
                   clicked, listbox_clicked, lbLeft, attempt, result,
                   onlyNotFound>>

\* lines 1163-1165: count the attempt, sleep, start over
SelRetry ==
    /\ pc = "retry"
    /\ attempt' = attempt + 1
    /\ now' = now + RetrySleep
    /\ pc' = "loopTest"
    /\ CycleLocalsCleared
    /\ UNCHANGED <<endT, frame, success, result, sawTarget,
                   cycleSawTarget, onlyNotFound, waitOutcome, waitRead, waitPolled>>

\* line 1167: driver.switch_to.default_content()
FrameAtReturnUnchanged(context) == context

FrameAtReturn(context) == "top"

\* lines 1167-1172: leave the iframe and return success
SelExit ==
    /\ pc = "exit"
    /\ frame' = FrameAtReturn(frame)
    /\ result' = IF success THEN "True" ELSE "False"
    /\ pc' = "done"
    /\ UNCHANGED <<now, endT, current_value, selected_value, typed,
                   clicked, listbox_clicked, lbLeft, success, attempt,
                   sawTarget, cycleSawTarget, onlyNotFound,
                   waitOutcome, waitRead, waitPolled>>

(***************************************************************************)
(* scroll_to_load_all                                                      *)
(***************************************************************************)
\* max_scrolls, the default of the parameter
MaxScrolls == 20

\* the settle threshold of "if consecutive_same >= 3"
SettleThreshold == 3

NoReport == 0 - 1

\* for i in range(max_scrolls): another attempt is made while n attempts < max_scrolls
RangeHasNextShort(n, max_scrolls) == n < max_scrolls - 1
RangeHasNext(n, max_scrolls) == n < max_scrolls

\* if new_count == prev_count: consecutive_same += 1  else: consecutive_same = 0
NextSameOnlyGrowthResets(same, prev, new) == IF new > prev THEN 0 ELSE same + 1
NextSame(same, prev, new) == IF new = prev THEN same + 1 ELSE 0

\* if consecutive_same >= 3: break   (only tested in the unchanged branch)
SettledAtTwo(same, prev, new) == new = prev /\ same >= 2
SettledLate(same, prev, new) == new = prev /\ same >= 4
Settled(same, prev, new) == new = prev /\ same >= SettleThreshold

\* The list's answer to one scroll step: the row count _count_file_items reads
\* after the scroll and the sleep.
CountAfterScroll(kind, n, p, cur) ==
    IF kind = "static" THEN {Min(n, cur + p)} ELSE 0..MaxVolatile

\* _find_scrollable_container: without a row there is no anchor and the result
\* is null; with one, the walk may or may not find a scrollable element.
FindScrollableContainer(rows) == IF rows = 0 THEN {FALSE} ELSE BOOLEAN

\* before any call has run there is nothing to compare a call with
NoHistory ==
    /\ startedFull = FALSE
    /\ reported = NoReport
    /\ prevFull = FALSE
    /\ prevAttempts = NoReport
    /\ prevReported = NoReport

InitScroll ==
    /\ sc_pc = "start"
    /\ listKind \in {"static", "volatile"}
    /\ IF listKind = "static"
       THEN /\ total \in 0..MaxItems
            /\ pageSize \in 1..MaxPageSize
            /\ loaded = Min(total, pageSize)
       ELSE /\ total = 0
            /\ pageSize = 1
            /\ loaded \in 0..MaxVolatile
    /\ container = FALSE
    /\ i = 0
    /\ consecutive_same = 0
    /\ prev_count = 0
    /\ new_count = 0
    /\ surfaceTop = 0
    /\ windowScripts = 0
    /\ run = 1
    /\ unchangedRun = 0
    /\ prevStreak = 0
    /\ regressed = FALSE
    /\ exitReason = "none"
    /\ NoHistory
    /\ SelectIdle
    /\ RestIdle

\* lines 139-162: locate the container, consecutive_same = 0
ScrollStart ==
    /\ sc_pc = "start"
    /\ container' \in FindScrollableContainer(loaded)
    /\ consecutive_same' = 0
    /\ i' = 0
    /\ unchangedRun' = 0
    /\ prevStreak' = 0
    /\ regressed' = FALSE
    /\ exitReason' = "none"
    /\ startedFull' = (listKind = "static" /\ loaded = total)
    /\ reported' = NoReport
    /\ windowScripts' = 0
    /\ sc_pc' = IF RangeHasNext(0, MaxScrolls) THEN "loop" ELSE "reset"
    /\ UNCHANGED <<listKind, total, pageSize, loaded, prev_count, new_count,
                   surfaceTop, run, prevFull, prevAttempts, prevReported>>

\* lines 167-174: the surface one scroll step addresses
ScrollTargetContainerOnly(hasContainer) == IF hasContainer THEN "container" ELSE "none"

ScrollTarget(hasContainer) == IF hasContainer THEN "container" ELSE "window"

\* lines 164-187: one pass of the for loop
ScrollAttempt ==
    /\ sc_pc = "loop"
    /\ \E c \in CountAfterScroll(listKind, total, pageSize, loaded) :
         /\ prev_count' = loaded
         /\ surfaceTop' = IF ScrollTarget(container) = "none" THEN surfaceTop
                          ELSE surfaceTop + 1
         /\ windowScripts' = IF ScrollTarget(container) = "window" THEN windowScripts + 1
                             ELSE windowScripts
         /\ loaded' = c
         /\ new_count' = c
         /\ i' = i + 1
         /\ consecutive_same' = NextSame(consecutive_same, loaded, c)
         /\ unchangedRun' = IF c = loaded THEN unchangedRun + 1 ELSE 0
         /\ prevStreak' = unchangedRun
         /\ regressed' = (regressed \/ c < loaded)
         /\ IF Settled(consecutive_same', loaded, c)
            THEN /\ sc_pc' = "reset"
                 /\ exitReason' = "stable"
                 /\ reported' = c
            ELSE /\ reported' = reported
                 /\ IF RangeHasNext(i + 1, MaxScrolls)
                    THEN sc_pc' = "loop" /\ exitReason' = "none"
                    ELSE sc_pc' = "reset" /\ exitReason' = "ceiling"
    /\ UNCHANGED <<listKind, total, pageSize, container, run, startedFull,
                   prevFull, prevAttempts, prevReported>>

\* lines 189-194: the offset of the scrolled surface after the closing script,
\* arguments[0].scrollTop = 0 on the container or window.scrollTo(0, 0)
ScrollTopAfterResetContainerOnly(hasContainer, top) == IF hasContainer THEN 0 ELSE top

ScrollTopAfterReset(hasContainer, top) == IF hasContainer THEN 0 ELSE 0

\* lines 189-194: scroll back to the top
ScrollBackToTop ==
    /\ sc_pc = "reset"
    /\ surfaceTop' = ScrollTopAfterReset(container, surfaceTop)
    /\ windowScripts' = IF container THEN windowScripts ELSE windowScripts + 1
    /\ sc_pc' = "done"
    /\ UNCHANGED <<listKind, total, pageSize, loaded, container, i,
                   consecutive_same, prev_count, new_count, run, unchangedRun,
                   prevStreak, regressed, exitReason, startedFull, reported,
                   prevFull, prevAttempts, prevReported>>

\* the caller invokes scroll_to_load_all again (lines 508, 562, 571)
ScrollAgain ==
    /\ sc_pc = "done"
    /\ run < MaxRuns
    /\ run' = run + 1
    /\ prevFull' = startedFull
    /\ prevAttempts' = i
    /\ prevReported' = reported
    /\ sc_pc' = "start"
    /\ UNCHANGED <<listKind, total, pageSize, loaded, container, i,
                   consecutive_same, prev_count, new_count, surfaceTop,
                   windowScripts, unchangedRun, prevStreak, regressed, exitReason, startedFull,
                   reported>>

NextScroll ==
    \/ ScrollStart /\ UNCHANGED <<selVars, restVars>>
    \/ ScrollAttempt /\ UNCHANGED <<selVars, restVars>>
    \/ ScrollBackToTop /\ UNCHANGED <<selVars, restVars>>
    \/ ScrollAgain /\ UNCHANGED <<selVars, restVars>>

SpecScroll == InitScroll /\ [][NextScroll]_vars

(***************************************************************************)
(* One call of select_county on a page that shows any of RawTexts          *)
(***************************************************************************)
ScrollIdle ==
    /\ sc_pc = "idle"
    /\ listKind = "static"
    /\ total = 0
    /\ pageSize = 1
    /\ loaded = 0
    /\ container = FALSE
    /\ i = 0
    /\ consecutive_same = 0
    /\ prev_count = 0
    /\ new_count = 0
    /\ surfaceTop = 0
    /\ windowScripts = 0
    /\ run = 1
    /\ unchangedRun = 0
    /\ prevStreak = 0
    /\ regressed = FALSE
    /\ exitReason = "none"
    /\ NoHistory

InitSelect ==
    /\ ScrollIdle
    /\ RestIdle
    /\ pc = "entry"
    /\ now = 0
    /\ endT = 0
    /\ frame \in {"top", "powerbi"}
    /\ current_value = T_Empty
    /\ selected_value = T_Empty
    /\ typed = FALSE
    /\ clicked = FALSE
    /\ listbox_clicked = FALSE
    /\ lbLeft = 0
    /\ success = FALSE
    /\ attempt = 0
    /\ result = "none"
    /\ sawTarget = FALSE
    /\ cycleSawTarget = FALSE
    /\ onlyNotFound = TRUE
    /\ waitOutcome = "none"
    /\ waitRead = NotRead
    /\ waitPolled = NotRead

NextSelect ==
    \/ SelEntry /\ UNCHANGED <<scrollVars, restVars>>
    \/ SelLoopTest /\ UNCHANGED <<scrollVars, restVars>>
    \/ SelLocate /\ UNCHANGED <<scrollVars, restVars>>
    \/ SelOpen /\ UNCHANGED <<scrollVars, restVars>>
    \/ SelPrepare /\ UNCHANGED <<scrollVars, restVars>>
    \/ SelDeselect /\ UNCHANGED <<scrollVars, restVars>>
    \/ SelSearch /\ UNCHANGED <<scrollVars, restVars>>
    \/ SelWaitOption /\ UNCHANGED <<scrollVars, restVars>>
    \/ SelCombo /\ UNCHANGED <<scrollVars, restVars>>
    \/ SelClickOption /\ UNCHANGED <<scrollVars, restVars>>
    \/ SelListbox /\ UNCHANGED <<scrollVars, restVars>>
    \/ SelVerify /\ UNCHANGED <<scrollVars, restVars>>
    \/ SelReselect /\ UNCHANGED <<scrollVars, restVars>>
    \/ SelReread /\ UNCHANGED <<scrollVars, restVars>>
    \/ SelDecide /\ UNCHANGED <<scrollVars, restVars>>
    \/ SelWaitSelected /\ UNCHANGED <<scrollVars, restVars>>
    \/ SelRetry /\ UNCHANGED <<scrollVars, restVars>>
    \/ SelExit /\ UNCHANGED <<scrollVars, restVars>>

SpecSelect == InitSelect /\ [][NextSelect]_vars

(***************************************************************************)
(* find_and_click_file (auto_download_county_file_sharepoint.py)           *)
(***************************************************************************)
MaxDom == 2          \* most elements on the page

T_AlamedaPadded == <<" ","A","l","a","m","e","d","a"," ">>

\* textContent of an element
ElemTexts == {T_Alameda, T_AlamedaPadded, T_AlamedaCounty, T_SanMateo}

\* aria-label, title and name of an element ('' when the attribute is absent)
ElemAttrs ==
    { [aria |-> T_Empty, title |-> T_Empty, name |-> T_Empty],
      [aria |-> T_AlamedaCounty, title |-> T_Empty, name |-> T_Empty],
      [aria |-> T_Empty, title |-> T_AlamedaCounty, name |-> T_Empty],
      [aria |-> T_Empty, title |-> T_Empty, name |-> T_Alameda],
      [aria |-> T_Empty, title |-> T_Empty, name |-> T_AlamedaCounty] }

\* getBoundingClientRect(): <<width, height>>
ElemRects == { <<0, 0>>, <<120, 20>>, <<600, 20>> }

Elements ==
    { [text |-> t, aria |-> a.aria, title |-> a.title, name |-> a.name,
       w |-> r[1], h |-> r[2]] : t \in ElemTexts, a \in ElemAttrs, r \in ElemRects }

Doms == UNION { [1..n -> Elements] : n \in 1..MaxDom }

\* target_filename of the call
FileName == T_Alameda

\* String.prototype.trim()
Trim(s) == Strip(s)

\* line 282: rect.width > 0 && rect.height > 0
Rendered(el) == el.w > 0 /\ el.h > 0

\* lines 278-279: the test of strategy 1
ExactPassMatchesBySubstring(el, fileName) ==
    \/ Contains(Trim(el.text), fileName)
    \/ Contains(el.aria, fileName)
    \/ Contains(el.title, fileName)
    \/ el.name = fileName

ExactPassMatches(el, fileName) ==
    \/ Trim(el.text) = fileName
    \/ Contains(el.aria, fileName)
    \/ Contains(el.title, fileName)
    \/ el.name = fileName

\* lines 281-289: the elements strategy 1 pushes to matches
ExactCandidates(d, fileName) ==
    { k \in DOMAIN d : ExactPassMatches(d[k], fileName) /\ Rendered(d[k]) }

\* line 322: the test of strategy 2
PartialPassMatches(el, fileName) == Contains(Trim(el.text), fileName)

\* line 324: rect.width > 0 && rect.height > 0 && rect.width < 500
PartialEligible(el) == el.w > 0 /\ el.h > 0 /\ el.w < 500

\* lines 321-332: the elements strategy 2 pushes to matches
PartialCandidates(d, fileName) ==
    { k \in DOMAIN d : PartialPassMatches(d[k], fileName) /\ PartialEligible(d[k]) }

\* matches[0]: querySelectorAll('*') walks the page in document order
FirstOf(S) == CHOOSE k \in S : \A j \in S : k <= j

\* what one execute_script of a strategy can do: the script itself raises,
\* it finds no match and returns null, or it clicks matches[0], which
\* succeeds or throws inside the script's try
ScriptOutcomes(cands) ==
    IF cands = {} THEN {"raise", "null"} ELSE {"raise", "clicked", "threw"}

InitMatch ==
    /\ ScrollIdle
    /\ SelectIdle
    /\ ClickIdle
    /\ SessionIdle
    /\ WaitIdle
    /\ LinksIdle
    /\ ExtraIdle
    /\ dom \in Doms
    /\ m_pc = "pass1"
    /\ m_result = "none"
    /\ clicks = {}
    /\ pass1Failed = FALSE

\* lines 267-308: strategy 1
MatchExactPass ==
    /\ m_pc = "pass1"
    /\ LET cands == ExactCandidates(dom, FileName) IN
       \E out \in ScriptOutcomes(cands) :
         IF out = "clicked"
         THEN /\ clicks' = clicks \cup {FirstOf(cands)}
              /\ m_result' = "True"
              /\ m_pc' = "done"
              /\ pass1Failed' = pass1Failed
         ELSE /\ clicks' = clicks
              /\ m_result' = m_result
              /\ m_pc' = "pass2"
              /\ pass1Failed' = (out \in {"raise", "threw"})
    /\ UNCHANGED dom

\* lines 310-355: strategy 2
MatchPartialPass ==
    /\ m_pc = "pass2"
    /\ LET cands == PartialCandidates(dom, FileName) IN
       \E out \in ScriptOutcomes(cands) :
         IF out = "clicked"
         THEN /\ clicks' = clicks \cup {FirstOf(cands)}
              /\ m_result' = "True"
              /\ m_pc' = "done"
         ELSE /\ clicks' = clicks
              /\ m_pc' = "fail"
              /\ m_result' = m_result
    /\ UNCHANGED <<dom, pass1Failed>>

\* lines 357-358: return False
MatchReturnFalse ==
    /\ m_pc = "fail"
    /\ m_result' = "False"
    /\ m_pc' = "done"
    /\ UNCHANGED <<dom, clicks, pass1Failed>>

NextMatch ==
    \/ MatchExactPass /\ UNCHANGED <<scrollVars, selVars, clickVars, sessionVars, waitVars, linkVars, extraVars>>
    \/ MatchPartialPass /\ UNCHANGED <<scrollVars, selVars, clickVars, sessionVars, waitVars, linkVars, extraVars>>
    \/ MatchReturnFalse /\ UNCHANGED <<scrollVars, selVars, clickVars, sessionVars, waitVars, linkVars, extraVars>>

SpecMatch == InitMatch /\ [][NextMatch]_vars

(***************************************************************************)
(* ensure_option_clicked, click_first_matching_option, force_click_option  *)
(* (final_working_downloader_auto.py): the option matcher of select_county *)
(***************************************************************************)
\* nodes of the slicer popup: role "option" | "listitem" | "slicer-item"
\* (data-automation-id) | "none"; hidden: display none, visibility hidden or
\* opacity 0
OptionElements ==
    { [text |-> t, aria |-> a, title |-> T_Empty, role |-> ro,
       w |-> r[1], h |-> r[2], hidden |-> hd] :
         t \in {T_Alameda, T_SanMateo}, a \in {T_Empty, T_AlamedaCounty},
         ro \in {"option", "listitem", "slicer-item", "none"},
         r \in { <<0, 0>>, <<120, 20>> }, hd \in BOOLEAN }

OptionDoms == UNION { [1..n -> OptionElements] : n \in 1..MaxDom }

\* contains(translate(x, 'ABC...', 'abc...'), county_lower), and
\* val.toLowerCase().includes(target)
MentionsCounty(text, county) == Contains(Lower(text), Lower(county))

\* lines 399-408: the elements each of the four XPaths selects
XPathSelects(n, el, county) ==
    CASE n = 1 -> el.role = "option" /\ MentionsCounty(el.text, county)
      [] n = 2 -> el.role = "listitem" /\ MentionsCounty(el.text, county)
      [] n = 3 -> el.role = "slicer-item" /\ MentionsCounty(el.text, county)
      [] n = 4 -> el.aria # T_Empty /\ MentionsCounty(el.aria, county)

\* lines 409-449: the position of element k in the order the loops try the
\* elements: XPath by XPath, each in document order
TryRank(d, k, county) ==
    LET n == CHOOSE x \in 1..4 : /\ XPathSelects(x, d[k], county)
                                 /\ \A y \in 1..(x - 1) : ~XPathSelects(y, d[k], county)
    IN n * (Len(d) + 1) + k

FirstMatchingCandidates(d, county) ==
    { k \in DOMAIN d : \E n \in 1..4 : XPathSelects(n, d[k], county) }

\* lines 95-113 and 439-447: the click of one option is delivered natively,
\* by arguments[0].click() or by the dispatched MouseEvent, unless all three
\* raise (the element went stale); ok is the set of elements for which one
\* of the three goes through
ClickedByFirstMatching(d, county, ok) ==
    LET tried == FirstMatchingCandidates(d, county) \cap ok IN
    IF tried = {} THEN {}
    ELSE {CHOOSE k \in tried : \A j \in tried : TryRank(d, k, county) <= TryRank(d, j, county)}

\* lines 820-827: nodes.filter(...)
ForceMatches(d, county) ==
    { k \in DOMAIN d : /\ d[k].role \in {"option", "slicer-item"}
                       /\ \/ MentionsCounty(Trim(d[k].text), county)
                          \/ MentionsCounty(Trim(d[k].title), county)
                          \/ MentionsCounty(Trim(d[k].aria), county) }

\* lines 830-835: the test of matches.find(...)
ForceVisible(el) == el.w > 2 /\ el.h > 2 /\ ~el.hidden

\* line 836: const match = visible || matches[0]
ForceMatch(d, county) ==
    LET matches == ForceMatches(d, county)
        visible == { k \in matches : ForceVisible(d[k]) }
    IN IF visible # {} THEN FirstOf(visible) ELSE FirstOf(matches)

InitOption ==
    /\ ScrollIdle
    /\ SelectIdle
    /\ ClickIdle
    /\ SessionIdle
    /\ WaitIdle
    /\ LinksIdle
    /\ ExtraIdle
    /\ dom \in OptionDoms
    /\ m_pc = "first"
    /\ m_result = "none"
    /\ clicks = {}
    /\ pass1Failed = FALSE

\* lines 397-451 and 1043-1044: click_first_matching_option
OptionFirstMatching ==
    /\ m_pc = "first"
    /\ \E ok \in SUBSET DOMAIN dom :
         LET hit == ClickedByFirstMatching(dom, Target, ok) IN
         /\ clicks' = clicks \cup hit
         /\ IF hit # {}
            THEN m_result' = "True" /\ m_pc' = "done"
            ELSE m_result' = m_result /\ m_pc' = "forcePopup"
    /\ UNCHANGED <<dom, pass1Failed>>

\* lines 808-855: one call of force_click_option; the script raises, finds
\* no match and returns false, or clicks its match and returns true
ForceClickOption(from, to) ==
    /\ m_pc = from
    /\ \E out \in (IF ForceMatches(dom, Target) = {} THEN {"raise", "false"}
                     ELSE {"raise", "true"}) :
         IF out = "true"
         THEN /\ clicks' = clicks \cup {ForceMatch(dom, Target)}
              /\ m_result' = "True"
              /\ m_pc' = "done"
         ELSE /\ clicks' = clicks
              /\ m_result' = IF to = "done" THEN "False" ELSE m_result
              /\ m_pc' = to
    /\ UNCHANGED <<dom, pass1Failed>>

\* lines 1045-1046: force_click_option(driver, county_name, popup_id=popup_id)
OptionForcePopup == ForceClickOption("forcePopup", "forceDoc")

\* line 1047: return force_click_option(driver, county_name)
OptionForceDocument == ForceClickOption("forceDoc", "done")

NextOption ==
    \/ OptionFirstMatching /\ UNCHANGED <<scrollVars, selVars, clickVars, sessionVars, waitVars, linkVars, extraVars>>
    \/ OptionForcePopup /\ UNCHANGED <<scrollVars, selVars, clickVars, sessionVars, waitVars, linkVars, extraVars>>
    \/ OptionForceDocument /\ UNCHANGED <<scrollVars, selVars, clickVars, sessionVars, waitVars, linkVars, extraVars>>

SpecOption == InitOption /\ [][NextOption]_vars

(***************************************************************************)
(* safe_click (final_working_downloader_auto.py), driven by the element    *)
(* loops of click_search_icon_if_present                                   *)
(***************************************************************************)
MaxClickTargets == 4     \* most elements the caller's selectors find

\* lines 96-113: where safe_click goes after element.click()
AfterNativeAlwaysScript(outcome) == "script"

AfterNative(outcome) == IF outcome = "ok" THEN "retTrue" ELSE "script"

\* lines 108-113: where it goes after arguments[0].click()
AfterScript(outcome) == IF outcome = "ok" THEN "retTrue" ELSE "retFalse"

InitClick ==
    /\ ScrollIdle
    /\ SelectIdle
    /\ MatchIdle
    /\ SessionIdle
    /\ WaitIdle
    /\ LinksIdle
    /\ ExtraIdle
    /\ c_pc = "next"
    /\ c_left \in 0..MaxClickTargets
    /\ c_clicked = FALSE
    /\ NoClickCall
    /\ c_log = <<>>

\* lines 357-370: the next element of the selector loops; is_displayed() and
\* is_enabled() may be false or raise, and the loop goes on
ClickCallerNext ==
    /\ c_pc = "next"
    /\ IF c_left = 0
       THEN /\ c_pc' = "done"
            /\ UNCHANGED <<c_left, c_scrolled, c_native, c_script, c_nativeN, c_scriptN>>
       ELSE /\ c_left' = c_left - 1
            /\ \E usable \in BOOLEAN : c_pc' = IF usable THEN "scroll" ELSE "next"
            /\ c_scrolled' = "none"
            /\ c_native' = "none"
            /\ c_script' = "none"
            /\ c_nativeN' = 0
            /\ c_scriptN' = 0
    /\ UNCHANGED <<c_clicked, c_log>>

\* lines 97-104: the best-effort scrollIntoView; its exception is swallowed
SafeClickScroll ==
    /\ c_pc = "scroll"
    /\ c_scrolled' \in {"ok", "raised"}
    /\ c_pc' = "native"
    /\ UNCHANGED <<c_left, c_clicked, c_native, c_script, c_nativeN, c_scriptN, c_log>>

\* lines 105-108: element.click()
SafeClickNative ==
    /\ c_pc = "native"
    /\ \E outcome \in {"ok", "raised"} :
         /\ c_native' = outcome
         /\ c_pc' = AfterNative(outcome)
    /\ c_nativeN' = c_nativeN + 1
    /\ UNCHANGED <<c_left, c_clicked, c_scrolled, c_script, c_scriptN, c_log>>

\* lines 109-112: driver.execute_script("arguments[0].click();", element)
SafeClickScript ==
    /\ c_pc = "script"
    /\ \E outcome \in {"ok", "raised"} :
         /\ c_script' = outcome
         /\ c_pc' = AfterScript(outcome)
    /\ c_scriptN' = c_scriptN + 1
    /\ UNCHANGED <<c_left, c_clicked, c_scrolled, c_native, c_nativeN, c_log>>

\* lines 106, 111, 113 and 362-369: safe_click returns; on True the caller
\* sets clicked and leaves its loops
SafeClickReturn ==
    /\ c_pc \in {"retTrue", "retFalse"}
    /\ c_log' = Append(c_log, [scrolled |-> c_scrolled, native |-> c_native,
                               script |-> c_script, result |-> (c_pc = "retTrue")])
    /\ c_clicked' = (c_pc = "retTrue")
    /\ c_pc' = IF c_pc = "retTrue" THEN "done" ELSE "next"
    /\ UNCHANGED <<c_left, c_scrolled, c_native, c_script, c_nativeN, c_scriptN>>

NextClick ==
    \/ ClickCallerNext /\ UNCHANGED <<scrollVars, selVars, matchVars, sessionVars, waitVars, linkVars, extraVars>>
    \/ SafeClickScroll /\ UNCHANGED <<scrollVars, selVars, matchVars, sessionVars, waitVars, linkVars, extraVars>>
    \/ SafeClickNative /\ UNCHANGED <<scrollVars, selVars, matchVars, sessionVars, waitVars, linkVars, extraVars>>
    \/ SafeClickScript /\ UNCHANGED <<scrollVars, selVars, matchVars, sessionVars, waitVars, linkVars, extraVars>>
    \/ SafeClickReturn /\ UNCHANGED <<scrollVars, selVars, matchVars, sessionVars, waitVars, linkVars, extraVars>>

SpecClick == InitClick /\ [][NextClick]_vars

(***************************************************************************)
(* The target loops: main (final_working_downloader_auto.py) and           *)
(* download_all_files_from_sharepoint                                      *)
(* (auto_download_county_file_sharepoint.py)                               *)
(***************************************************************************)
MaxTargets == 3      \* most targets of one session
MaxLinks == 1        \* most links of one kind the widget shows

\* what wait_for_links may return
LinkCounts == { [county |-> a, city |-> b] : a \in 0..1, b \in 0..MaxLinks }

\* a call that is not wrapped in a try of its own returns or raises
CallOutcomes == {"ok", "raise"}

InitSession ==
    /\ ScrollIdle
    /\ SelectIdle
    /\ MatchIdle
    /\ ClickIdle
    /\ WaitIdle
    /\ LinksIdle
    /\ ExtraIdle
    /\ s_prog \in {"auto", "sharepoint"}
    /\ s_pc = "start"
    /\ s_n \in 1..MaxTargets
    /\ s_idx = 0
    /\ s_selected = FALSE
    /\ s_links = NoLinks
    /\ s_attempts = <<>>
    /\ s_verified = {}
    /\ s_written = {}
    /\ s_aborted = FALSE
    /\ s_view = "list"
    /\ s_session = "none"
    /\ s_driver = FALSE
    /\ s_quits = 0

\* the for statement of either loop: the next target, or the code after the loop
SessionLoopHead(body, after) ==
    /\ s_pc = "loopHead"
    /\ IF s_idx < s_n
       THEN /\ s_idx' = s_idx + 1
            /\ s_attempts' = Append(s_attempts, s_idx + 1)
            /\ s_pc' = body
       ELSE /\ s_pc' = after
            /\ UNCHANGED <<s_idx, s_attempts>>
    /\ UNCHANGED <<s_prog, s_n, s_selected, s_links, s_verified, s_written, s_aborted>>
    /\ UNCHANGED <<s_view, s_session, s_driver, s_quits>>

\* a step of the loop body whose calls may raise into the outer try
SessionStep(from, to) ==
    /\ s_pc = from
    /\ \E out \in CallOutcomes : s_pc' = IF out = "ok" THEN to ELSE "except"
    /\ UNCHANGED <<s_prog, s_n, s_idx, s_selected, s_links, s_attempts,
                   s_verified, s_written, s_aborted>>
    /\ UNCHANGED <<s_view, s_session, s_driver, s_quits>>

\* how the code before the loop can end: webdriver.Chrome raised
\* ("noBrowser"), a call of setup_chrome_driver after it raised ("setupRaise"),
\* a later call raised ("raise"), or none did ("ok")
AutoStartOutcomes == {"noBrowser", "raise", "ok"}
ShareStartOutcomes == {"noBrowser", "setupRaise", "raise", "ok"}

\* driver = <the call that builds the browser>: the local is bound when the
\* call returned
DriverBound(out) == out \in {"raise", "ok"}

\* the code of either run before its loop
SessionStart(outcomes) ==
    /\ s_pc = "start"
    /\ \E out \in outcomes :
         /\ s_session' = IF out = "noBrowser" THEN "none" ELSE "open"
         /\ s_driver' = DriverBound(out)
         /\ s_pc' = IF out = "ok" THEN "loopHead" ELSE "except"
    /\ UNCHANGED <<s_prog, s_n, s_idx, s_selected, s_links, s_attempts,
                   s_verified, s_written, s_aborted, s_view, s_quits>>

\* main, lines 1215-1223: build_driver, driver.get, load_target_counties
AutoStart == s_prog = "auto" /\ SessionStart(AutoStartOutcomes)

\* main, line 1225; after the loop the summary is printed (lines 1266-1278)
AutoLoopHead == s_prog = "auto" /\ SessionLoopHead("baseline", "finally")

\* main, lines 1230-1232: current_links_total, switch_to.default_content
AutoBaseline == s_prog = "auto" /\ SessionStep("baseline", "select")

\* main, lines 1234-1236: selected = select_county(driver, county_name); a
\* False is logged and the body goes on
AutoSelect ==
    /\ s_prog = "auto"
    /\ s_pc = "select"
    /\ \E out \in {"True", "False", "raise"} :
         /\ s_selected' = (out = "True")
         /\ s_verified' = IF out = "True" THEN s_verified \cup {s_idx} ELSE s_verified
         /\ s_pc' = IF out = "raise" THEN "except" ELSE "links"
    /\ UNCHANGED <<s_prog, s_n, s_idx, s_links, s_attempts, s_written, s_aborted>>
    /\ UNCHANGED <<s_view, s_session, s_driver, s_quits>>

\* main, lines 1238-1242: links_data = wait_for_links(driver, previous_total=baseline_total)
AutoWaitLinks ==
    /\ s_prog = "auto"
    /\ s_pc = "links"
    /\ \/ /\ s_links' \in LinkCounts
          /\ s_pc' = "download"
       \/ /\ s_links' = s_links
          /\ s_pc' = "except"
    /\ UNCHANGED <<s_prog, s_n, s_idx, s_selected, s_attempts, s_verified,
                   s_written, s_aborted, s_view, s_session, s_driver, s_quits>>

\* main, lines 1244-1264: download_image_file for the first county link and
\* for every city link; it returns False instead of raising
AutoDownload ==
    /\ s_prog = "auto"
    /\ s_pc = "download"
    /\ \E saved \in SUBSET ((IF s_links.county > 0 THEN {0} ELSE {}) \cup 1..s_links.city) :
         s_written' = s_written \cup { [order |-> s_idx, city |-> c] : c \in saved }
    /\ s_pc' = "loopHead"
    /\ UNCHANGED <<s_prog, s_n, s_idx, s_selected, s_links, s_attempts,
                   s_verified, s_aborted, s_view, s_session, s_driver, s_quits>>

\* download_all_files_from_sharepoint, lines 482-508: open the browser
\* (setup_chrome_driver, lines 19-49) and the page, switch to tiles,
\* scroll_to_load_all
ShareStart == s_prog = "sharepoint" /\ SessionStart(ShareStartOutcomes)

\* line 511
ShareLoopHead == s_prog = "sharepoint" /\ SessionLoopHead("find", "finally")

\* lines 524-531: the download could not be triggered; document.body is
\* clicked to dismiss popups, which may or may not close the file's view,
\* and the loop continues without driver.back()
ViewAfterDismiss(dismissed) == IF dismissed THEN "list" ELSE "file"

\* lines 517-532: find_and_click_file, whose click opens the file, then
\* find_and_click_download; each returns False instead of raising, and the
\* loop continues
ShareFindAndClick ==
    /\ s_prog = "sharepoint"
    /\ s_pc = "find"
    /\ \E found \in BOOLEAN, triggered \in BOOLEAN, dismissed \in BOOLEAN :
         /\ s_pc' = IF found /\ triggered THEN "wait" ELSE "loopHead"
         /\ s_view' = IF ~found THEN s_view
                       ELSE IF triggered THEN "file"
                       ELSE ViewAfterDismiss(dismissed)
    /\ UNCHANGED <<s_prog, s_n, s_idx, s_selected, s_links, s_attempts,
                   s_verified, s_written, s_aborted, s_session, s_driver, s_quits>>

\* lines 535-541: wait_for_download_complete returns a path or None
ShareWaitDownload ==
    /\ s_prog = "sharepoint"
    /\ s_pc = "wait"
    /\ \E got \in BOOLEAN :
         s_written' = IF got THEN s_written \cup {[order |-> s_idx, city |-> 0]}
                      ELSE s_written
    /\ s_pc' = IF s_idx < s_n THEN "back" ELSE "loopHead"
    /\ UNCHANGED <<s_prog, s_n, s_idx, s_selected, s_links, s_attempts,
                   s_verified, s_aborted, s_view, s_session, s_driver, s_quits>>

\* lines 544-571: driver.back(); an exception of the try is handled by
\* re-navigating, and an exception of the handler (driver.get,
\* scroll_to_load_all) reaches the outer except
ShareNavigateBack ==
    /\ s_prog = "sharepoint"
    /\ s_pc = "back"
    /\ \E out \in CallOutcomes :
         /\ s_pc' = IF out = "ok" THEN "loopHead" ELSE "except"
         /\ s_view' = IF out = "ok" THEN "list" ELSE s_view
    /\ UNCHANGED <<s_prog, s_n, s_idx, s_selected, s_links, s_attempts,
                   s_verified, s_written, s_aborted, s_session, s_driver, s_quits>>

\* main, lines 1280-1281, and download_all_files_from_sharepoint, lines
\* 575-579: the outer except ends the run
SessionExcept ==
    /\ s_pc = "except"
    /\ s_aborted' = TRUE
    /\ s_pc' = "finally"
    /\ UNCHANGED <<s_prog, s_n, s_idx, s_selected, s_links, s_attempts,
                   s_verified, s_written, s_view, s_session, s_driver, s_quits>>

\* main, lines 1282-1287, and lines 581-587: if driver: driver.quit(), whose
\* exception is swallowed
SessionFinally ==
    /\ s_pc = "finally"
    /\ IF s_driver
       THEN /\ s_quits' = s_quits + 1
            /\ s_session' = "quit"
       ELSE UNCHANGED <<s_quits, s_session>>
    /\ s_pc' = "done"
    /\ UNCHANGED <<s_prog, s_n, s_idx, s_selected, s_links, s_attempts,
                   s_verified, s_written, s_aborted, s_view, s_driver>>

NextSession ==
    \/ AutoStart /\ UNCHANGED <<scrollVars, selVars, matchVars, clickVars, waitVars, linkVars, extraVars>>
    \/ AutoLoopHead /\ UNCHANGED <<scrollVars, selVars, matchVars, clickVars, waitVars, linkVars, extraVars>>
    \/ AutoBaseline /\ UNCHANGED <<scrollVars, selVars, matchVars, clickVars, waitVars, linkVars, extraVars>>
    \/ AutoSelect /\ UNCHANGED <<scrollVars, selVars, matchVars, clickVars, waitVars, linkVars, extraVars>>
    \/ AutoWaitLinks /\ UNCHANGED <<scrollVars, selVars, matchVars, clickVars, waitVars, linkVars, extraVars>>
    \/ AutoDownload /\ UNCHANGED <<scrollVars, selVars, matchVars, clickVars, waitVars, linkVars, extraVars>>
    \/ ShareStart /\ UNCHANGED <<scrollVars, selVars, matchVars, clickVars, waitVars, linkVars, extraVars>>
    \/ ShareLoopHead /\ UNCHANGED <<scrollVars, selVars, matchVars, clickVars, waitVars, linkVars, extraVars>>
    \/ ShareFindAndClick /\ UNCHANGED <<scrollVars, selVars, matchVars, clickVars, waitVars, linkVars, extraVars>>
    \/ ShareWaitDownload /\ UNCHANGED <<scrollVars, selVars, matchVars, clickVars, waitVars, linkVars, extraVars>>
    \/ ShareNavigateBack /\ UNCHANGED <<scrollVars, selVars, matchVars, clickVars, waitVars, linkVars, extraVars>>
    \/ SessionExcept /\ UNCHANGED <<scrollVars, selVars, matchVars, clickVars, waitVars, linkVars, extraVars>>
    \/ SessionFinally /\ UNCHANGED <<scrollVars, selVars, matchVars, clickVars, waitVars, linkVars, extraVars>>

SpecSession == InitSession /\ [][NextSession]_vars

(***************************************************************************)
(* wait_for_download_complete (auto_download_county_file_sharepoint.py,    *)
(* and the same text in download_alameda_sharepoint.py) with the browser   *)
(* writing into the download directory                                     *)
(***************************************************************************)
MaxFiles == 3            \* most files the directory ever holds
DownloadTimeout == 15    \* timeout argument, in ticks (callers pass 60 s)
DownloadPoll == 5        \* time.sleep(0.5)

FileIds == 1..MaxFiles

PngFiles(files) == { f \in DOMAIN files : files[f] \in {"empty", "full"} }

\* glob.glob(os.path.join(download_dir, "*.crdownload"))
Downloading(files) == { f \in DOMAIN files : files[f] = "part" }

\* the orders in which the files of S may have been last modified
MtimeOrders(S) ==
    { q \in [1..Cardinality(S) -> S] : \A a, b \in DOMAIN q : a # b => q[a] # q[b] }

\* max(png_files, key=os.path.getmtime)
LatestFile(order) == order[Len(order)]

\* lines 66-68: file_size > 0
NonEmpty(files, f) == files[f] = "full"

\* the state at the call: the download has just been triggered and at least
\* one file is still to come
InitDownload ==
    /\ ScrollIdle
    /\ SelectIdle
    /\ MatchIdle
    /\ ClickIdle
    /\ SessionIdle
    /\ LinksIdle
    /\ ExtraIdle
    /\ w_pc = "entry"
    /\ w_now = 0
    /\ w_end = 0
    /\ w_files \in [FileIds -> {"absent", "part", "empty", "full"}]
    /\ \E f \in FileIds : w_files[f] = "absent"
    /\ w_order \in MtimeOrders(PngFiles(w_files))
    /\ w_snapshot = { f \in FileIds : w_files[f] # "absent" }
    /\ w_started = FALSE
    /\ w_result = "none"
    /\ w_partAtReturn = FALSE

\* the browser begins to write the triggered download: name.crdownload appears
BrowserStartsDownload ==
    /\ w_pc # "done"
    /\ ~w_started
    /\ \E f \in FileIds :
         /\ w_files[f] = "absent"
         /\ w_files' = [w_files EXCEPT ![f] = "part"]
    /\ w_started' = TRUE
    /\ UNCHANGED <<w_pc, w_now, w_end, w_order, w_snapshot, w_result, w_partAtReturn>>

\* a download completes: the *.crdownload is renamed to the *.png
BrowserFinishesDownload ==
    /\ w_pc # "done"
    /\ \E f \in Downloading(w_files), size \in {"empty", "full"} :
         /\ w_files' = [w_files EXCEPT ![f] = size]
         /\ w_order' = Append(w_order, f)
    /\ UNCHANGED <<w_pc, w_now, w_end, w_snapshot, w_started, w_result, w_partAtReturn>>

\* line 56: end_time = time.time() + timeout
WaitEntry ==
    /\ w_pc = "entry"
    /\ w_end' = w_now + DownloadTimeout
    /\ w_pc' = "loopTest"
    /\ UNCHANGED <<w_now, w_files, w_order, w_snapshot, w_started, w_result, w_partAtReturn>>

\* lines 57 and 71: while time.time() < end_time ... return None
WaitLoopTest ==
    /\ w_pc = "loopTest"
    /\ IF w_now < w_end
       THEN w_pc' = "listPart" /\ w_result' = w_result
       ELSE w_pc' = "done" /\ w_result' = "None"
    /\ UNCHANGED <<w_now, w_end, w_files, w_order, w_snapshot, w_started, w_partAtReturn>>

\* lines 59-60: downloading = glob(*.crdownload); if not downloading
WaitListPartFiles ==
    /\ w_pc = "listPart"
    /\ w_pc' = IF Downloading(w_files) = {} THEN "listPng" ELSE "sleep"
    /\ UNCHANGED <<w_now, w_end, w_files, w_order, w_snapshot, w_started, w_result,
                   w_partAtReturn>>

\* lines 62-68: png_files = glob(*.png); the most recently modified one is
\* returned if its size is not zero
WaitListPngFiles ==
    /\ w_pc = "listPng"
    /\ IF PngFiles(w_files) # {} /\ NonEmpty(w_files, LatestFile(w_order))
       THEN /\ w_result' = LatestFile(w_order)
            /\ w_partAtReturn' = (Downloading(w_files) # {})
            /\ w_pc' = "done"
       ELSE /\ w_pc' = "sleep"
            /\ UNCHANGED <<w_result, w_partAtReturn>>
    /\ UNCHANGED <<w_now, w_end, w_files, w_order, w_snapshot, w_started>>

\* line 69: time.sleep(0.5)
WaitSleep ==
    /\ w_pc = "sleep"
    /\ w_now' = w_now + DownloadPoll
    /\ w_pc' = "loopTest"
    /\ UNCHANGED <<w_end, w_files, w_order, w_snapshot, w_started, w_result, w_partAtReturn>>

NextDownload ==
    \/ BrowserStartsDownload /\ UNCHANGED <<scrollVars, selVars, matchVars, clickVars, sessionVars, linkVars, extraVars>>
    \/ BrowserFinishesDownload /\ UNCHANGED <<scrollVars, selVars, matchVars, clickVars, sessionVars, linkVars, extraVars>>
    \/ WaitEntry /\ UNCHANGED <<scrollVars, selVars, matchVars, clickVars, sessionVars, linkVars, extraVars>>
    \/ WaitLoopTest /\ UNCHANGED <<scrollVars, selVars, matchVars, clickVars, sessionVars, linkVars, extraVars>>
    \/ WaitListPartFiles /\ UNCHANGED <<scrollVars, selVars, matchVars, clickVars, sessionVars, linkVars, extraVars>>
    \/ WaitListPngFiles /\ UNCHANGED <<scrollVars, selVars, matchVars, clickVars, sessionVars, linkVars, extraVars>>
    \/ WaitSleep /\ UNCHANGED <<scrollVars, selVars, matchVars, clickVars, sessionVars, linkVars, extraVars>>

SpecDownload == InitDownload /\ [][NextDownload]_vars

(***************************************************************************)
(* wait_for_links (final_working_downloader_auto.py) and                   *)
(* get_sharepoint_links_from_powerbi (final_working_downloader.py)         *)
(***************************************************************************)
MaxAnchors == 2          \* most SharePoint anchors the widget shows
LinksTimeout == 200      \* timeout=20, in ticks
LinksSleep == 10         \* time.sleep(1)

\* column-index and aria-colindex of the grid cell an anchor sits in
AnchorCells == { <<"2", "4">>, <<"3", "5">>, <<"2", "5">> }

\* the anchors a[href*="carorg.sharepoint.com/:i:"] of the widget in document
\* order; an anchor's href is identified with its position
LinkPages == UNION { [1..n -> AnchorCells] : n \in 0..MaxAnchors }

\* lines 66-80: links.forEach(...) pushes the hrefs of one column
ColumnLinks(page, cell) ==
    SelectSeq([k \in 1..Len(page) |-> k], LAMBDA k : page[k] = cell)

\* lines 62-86: the value of js_extract
ExtractLinks(page) ==
    [county |-> ColumnLinks(page, <<"2", "4">>), city |-> ColumnLinks(page, <<"3", "5">>)]

\* line 1183: len(links.get("county", [])) + len(links.get("city", []))
LinksTotal(links) == Len(links.county) + Len(links.city)

\* line 1185: total > 0 and total != previous_total
LinksChangedOnly(tot, previous_total) == tot # previous_total

LinksChanged(tot, previous_total) == tot > 0 /\ tot # previous_total

InitLinks ==
    /\ ScrollIdle
    /\ SelectIdle
    /\ MatchIdle
    /\ ClickIdle
    /\ SessionIdle
    /\ WaitIdle
    /\ ExtraIdle
    /\ l_pc = "entry"
    /\ l_now = 0
    /\ l_end = 0
    /\ l_prev \in 0..MaxAnchors
    /\ l_frame \in {"top", "powerbi"}
    /\ l_links = EmptyLinks
    /\ l_best = EmptyLinks
    /\ l_result = EmptyLinks
    /\ l_how = "none"
    /\ l_harvests = 0
    /\ l_scripts = 0

\* lines 1177-1180: end, best, and switch_to_powerbi_iframe
LinksEntry ==
    /\ l_pc = "entry"
    /\ l_end' = l_now + LinksTimeout
    /\ l_best' = EmptyLinks
    /\ \E outcome \in IframeOutcomes :
         /\ l_frame' = FrameAfterSwitch(outcome)
         /\ CASE outcome = "entered" ->
                   l_pc' = "loopTest" /\ l_how' = l_how /\ l_result' = l_result
              [] outcome = "missing" ->
                   l_pc' = "done" /\ l_how' = "noIframe" /\ l_result' = EmptyLinks
              [] outcome = "raise" ->
                   l_pc' = "raised" /\ l_how' = "raisedSwitch" /\ l_result' = l_result
    /\ UNCHANGED <<l_now, l_prev, l_links, l_harvests, l_scripts>>

\* lines 1181 and 1189: while time.time() < end ... return best
LinksLoopTest ==
    /\ l_pc = "loopTest"
    /\ IF l_now < l_end
       THEN l_pc' = "harvest" /\ l_how' = l_how /\ l_result' = l_result
       ELSE l_pc' = "done" /\ l_how' = "timeout" /\ l_result' = l_best
    /\ UNCHANGED <<l_now, l_end, l_prev, l_frame, l_links, l_best, l_harvests, l_scripts>>

\* line 1182 and get_sharepoint_links_from_powerbi, lines 49-94: no matching
\* iframe in the current context, an exception of find_elements,
\* get_attribute or switch_to.frame, or the frame is entered and js_extract
\* is executed once, returning the page's links or raising
LinksHarvest ==
    /\ l_pc = "harvest"
    /\ l_harvests' = l_harvests + 1
    /\ \/ /\ l_links' = EmptyLinks
          /\ l_scripts' = 0
          /\ l_frame' = l_frame
          /\ l_pc' = "decide"
          /\ l_how' = l_how
       \/ /\ l_pc' = "raised"
          /\ l_how' = "raisedHarvest"
          /\ l_scripts' = 0
          /\ UNCHANGED <<l_links, l_frame>>
       \/ /\ \/ \E page \in LinkPages : l_links' = ExtractLinks(page)
             \/ l_links' = EmptyLinks
          /\ l_scripts' = 1
          /\ l_frame' = "top"
          /\ l_pc' = "decide"
          /\ l_how' = l_how
    /\ UNCHANGED <<l_now, l_end, l_prev, l_best, l_result>>

\* lines 1183-1187: return links, or best = links
LinksDecide ==
    /\ l_pc = "decide"
    /\ IF LinksChanged(LinksTotal(l_links), l_prev)
       THEN /\ l_result' = l_links
            /\ l_how' = "changed"
            /\ l_pc' = "done"
            /\ l_best' = l_best
       ELSE /\ l_best' = l_links
            /\ l_pc' = "sleep"
            /\ UNCHANGED <<l_result, l_how>>
    /\ UNCHANGED <<l_now, l_end, l_prev, l_frame, l_links, l_harvests, l_scripts>>

\* line 1188: time.sleep(1)
LinksSleepStep ==
    /\ l_pc = "sleep"
    /\ l_now' = l_now + LinksSleep
    /\ l_pc' = "loopTest"
    /\ UNCHANGED <<l_end, l_prev, l_frame, l_links, l_best, l_result, l_how,
                   l_harvests, l_scripts>>

NextLinks ==
    \/ LinksEntry /\ UNCHANGED <<scrollVars, selVars, matchVars, clickVars, sessionVars, waitVars, extraVars>>
    \/ LinksLoopTest /\ UNCHANGED <<scrollVars, selVars, matchVars, clickVars, sessionVars, waitVars, extraVars>>
    \/ LinksHarvest /\ UNCHANGED <<scrollVars, selVars, matchVars, clickVars, sessionVars, waitVars, extraVars>>
    \/ LinksDecide /\ UNCHANGED <<scrollVars, selVars, matchVars, clickVars, sessionVars, waitVars, extraVars>>
    \/ LinksSleepStep /\ UNCHANGED <<scrollVars, selVars, matchVars, clickVars, sessionVars, waitVars, extraVars>>

SpecLinks == InitLinks /\ [][NextLinks]_vars

(***************************************************************************)
(* The subsystems above, taken together                                    *)
(***************************************************************************)
CoreIdle ==
    /\ ScrollIdle
    /\ SelectIdle
    /\ MatchIdle
    /\ ClickIdle
    /\ SessionIdle
    /\ WaitIdle
    /\ LinksIdle

(***************************************************************************)
(* load_target_counties (final_working_downloader_auto.py)                 *)
(***************************************************************************)
MaxEnvLen == 5           \* longest value of SALA_COUNTIES

T_SantaClara == <<"S","a","n","t","a"," ","C","l","a","r","a">>
T_SanFrancisco == <<"S","a","n"," ","F","r","a","n","c","i","s","c","o">>

\* lines 36-41
DEFAULT_COUNTIES == <<T_SantaClara, T_SanMateo, T_Alameda, T_SanFrancisco>>

\* SALA_COUNTIES is not in the environment
Unset == <<"<unset>">>

EnvChars == {"a", "b", " ", ","}

EnvValues == {Unset} \cup UNION { [1..n -> EnvChars] : n \in 0..MaxEnvLen }

\* os.getenv("SALA_COUNTIES", "")
Getenv(env) == IF env = Unset THEN <<>> ELSE env

\* raw.split(",")
RECURSIVE Split(_)
Split(raw) ==
    IF \E k \in 1..Len(raw) : raw[k] = ","
    THEN LET k == CHOOSE c \in 1..Len(raw) :
                      raw[c] = "," /\ \A b \in 1..(c - 1) : raw[b] # ","
         IN <<SubSeq(raw, 1, k - 1)>> \o Split(SubSeq(raw, k + 1, Len(raw)))
    ELSE <<raw>>

\* line 49: [name.strip() for name in raw.split(",") if name.strip()]
NamesOfUntrimmed(raw) == SelectSeq(Split(raw), LAMBDA name : Strip(name) # <<>>)

NamesOf(raw) ==
    LET parts == Split(raw)
    IN SelectSeq([k \in 1..Len(parts) |-> Strip(parts[k])], LAMBDA name : name # <<>>)

\* line 52: [(name, idx + 1) for idx, name in enumerate(names)]
Enumerate(names) == [k \in 1..Len(names) |-> <<names[k], k>>]

\* lines 46-52
LoadTargetCountiesOf(env) ==
    LET raw == Strip(Getenv(env))
    IN Enumerate(IF raw # <<>> THEN NamesOf(raw) ELSE DEFAULT_COUNTIES)

InitTargets ==
    /\ CoreIdle
    /\ ConvIdle
    /\ LocatorIdle
    /\ SlicerIdle
    /\ GuideIdle
    /\ OfferIdle
    /\ t_pc = "call"
    /\ t_env \in EnvValues
    /\ t_result = <<>>

load_target_counties ==
    /\ t_pc = "call"
    /\ t_result' = LoadTargetCountiesOf(t_env)
    /\ t_pc' = "done"
    /\ UNCHANGED t_env

NextTargets ==
    \/ load_target_counties /\ UNCHANGED <<coreVars, notTargetVars>>

SpecTargets == InitTargets /\ [][NextTargets]_vars

(***************************************************************************)
(* convert_zip_pdfs_to_png.py: main and convert_pdf_to_pngs                *)
(***************************************************************************)
MaxPdfs == 3             \* most ZIPTrends PDFs in the work directory
MaxPages == 3            \* most pages of one PDF

\* line 61: start_index=total_written + 1
StartIndexPerPdf(total_written) == 1

StartIndex(total_written) == total_written + 1

\* line 36: f"6({start_index + written}).png", identified with its number
Filename(start_index, written) == start_index + written

InitConv ==
    /\ CoreIdle
    /\ TargetsIdle
    /\ LocatorIdle
    /\ SlicerIdle
    /\ GuideIdle
    /\ OfferIdle
    /\ cv_pc = "start"
    /\ cv_pdfs \in UNION { [1..n -> 0..MaxPages] : n \in 0..MaxPdfs }
    /\ cv_i = 0
    /\ cv_total_written = 0
    /\ cv_start_index = 0
    /\ cv_written = 0
    /\ cv_page_num = 0
    /\ cv_log = <<>>
    /\ cv_removed = {}

\* lines 52-59: no PDF found ends the run, otherwise total_written = 0
ConvStart ==
    /\ cv_pc = "start"
    /\ cv_pc' = IF cv_pdfs = <<>> THEN "exit1" ELSE "loopHead"
    /\ cv_total_written' = 0
    /\ UNCHANGED <<cv_pdfs, cv_i, cv_start_index, cv_written, cv_page_num, cv_log,
                   cv_removed>>

\* lines 60-61 and 32-33: the next pdf, the call of convert_pdf_to_pngs, and
\* fitz.open, which may raise; lines 70-75 after the last pdf
ConvLoopHead ==
    /\ cv_pc = "loopHead"
    /\ IF cv_i < Len(cv_pdfs)
       THEN /\ cv_i' = cv_i + 1
            /\ cv_start_index' = StartIndex(cv_total_written)
            /\ cv_written' = 0
            /\ cv_page_num' = 0
            /\ cv_pc' \in {"page", "crashed"}
       ELSE /\ cv_pc' = IF cv_total_written > 0 THEN "exit0" ELSE "exit1"
            /\ UNCHANGED <<cv_i, cv_start_index, cv_written, cv_page_num>>
    /\ UNCHANGED <<cv_pdfs, cv_total_written, cv_log, cv_removed>>

\* lines 34-39: one page is rendered and saved, or get_pixmap or save raises
ConvPage ==
    /\ cv_pc = "page"
    /\ cv_page_num < cv_pdfs[cv_i]
    /\ cv_page_num' = cv_page_num + 1
    /\ \/ /\ cv_log' = Append(cv_log, [pdf |-> cv_i, page |-> cv_page_num + 1,
                                        file |-> Filename(cv_start_index, cv_written)])
          /\ cv_written' = cv_written + 1
          /\ cv_pc' = "page"
       \/ /\ cv_pc' = "crashed"
          /\ UNCHANGED <<cv_log, cv_written>>
    /\ UNCHANGED <<cv_pdfs, cv_i, cv_total_written, cv_start_index, cv_removed>>

\* lines 41 and 62-68: return written; total_written += written; the pdf is
\* removed when a page was written, and a failure of os.remove is only logged
ConvReturn ==
    /\ cv_pc = "page"
    /\ cv_page_num = cv_pdfs[cv_i]
    /\ cv_total_written' = cv_total_written + cv_written
    /\ IF cv_written > 0
       THEN cv_removed' \in {cv_removed, cv_removed \cup {cv_i}}
       ELSE cv_removed' = cv_removed
    /\ cv_pc' = "loopHead"
    /\ UNCHANGED <<cv_pdfs, cv_i, cv_start_index, cv_written, cv_page_num, cv_log>>

NextConv ==
    \/ ConvStart /\ UNCHANGED <<coreVars, notConvVars>>
    \/ ConvLoopHead /\ UNCHANGED <<coreVars, notConvVars>>
    \/ ConvPage /\ UNCHANGED <<coreVars, notConvVars>>
    \/ ConvReturn /\ UNCHANGED <<coreVars, notConvVars>>

SpecConv == InitConv /\ [][NextConv]_vars

(***************************************************************************)
(* _find_scrollable_container (auto_download_county_file_sharepoint.py)    *)
(***************************************************************************)
MaxDepth == 2            \* most ancestors between the anchor row and <body>
MaxCandidates == 2       \* most elements the fallback selectors match

OverflowValues == {"visible", "auto", "scroll", "overlay"}

\* scrollHeight - clientHeight of an ancestor, and of a fallback candidate
AncestorExcesses == {0, 1}
CandidateExcesses == {0, 50, 51}

\* a page: whether a row matches the anchor selectors; the row's ancestors
\* from its parent up to the child of <body>; the overflow-y of <body>, whose
\* content is taller than it; the elements the three fallback selectors
\* match, in the order the loops of lines 117-124 visit them
LocatorPages ==
    [row : BOOLEAN,
     chain : UNION { [1..n -> [overflowY : OverflowValues, excess : AncestorExcesses]] :
                     n \in 0..MaxDepth },
     bodyOverflowY : {"visible", "auto"},
     cands : UNION { [1..n -> CandidateExcesses] : n \in 0..MaxCandidates }]

\* lines 104-105
IsScrollableAutoOnly(el) == el.overflowY = "auto" /\ el.excess > 0

IsScrollable(el) == el.overflowY \in {"auto", "scroll", "overlay"} /\ el.excess > 0

\* line 120: c.scrollHeight > c.clientHeight + 50
FallbackAcceptsAnyExcess(excess) == excess > 0

FallbackAccepts(excess) == excess > 50

\* lines 99-109: the walk from row.parentElement, which ends at <body>
RECURSIVE WalkUp(_, _)
WalkUp(chain, k) ==
    IF k > Len(chain) THEN 0
    ELSE IF IsScrollable(chain[k]) THEN k
    ELSE WalkUp(chain, k + 1)

\* lines 112-124
RECURSIVE FirstFallback(_, _)
FirstFallback(cands, k) ==
    IF k > Len(cands) THEN 0
    ELSE IF FallbackAccepts(cands[k]) THEN k
    ELSE FirstFallback(cands, k + 1)

\* lines 91-127: the value of the script
ContainerOf(page) ==
    IF ~page.row THEN NoContainer
    ELSE IF WalkUp(page.chain, 1) # 0
    THEN [kind |-> "ancestor", at |-> WalkUp(page.chain, 1)]
    ELSE IF FirstFallback(page.cands, 1) # 0
    THEN [kind |-> "fallback", at |-> FirstFallback(page.cands, 1)]
    ELSE NoContainer

InitLocator ==
    /\ CoreIdle
    /\ TargetsIdle
    /\ ConvIdle
    /\ SlicerIdle
    /\ GuideIdle
    /\ OfferIdle
    /\ fc_pc = "call"
    /\ fc_page \in LocatorPages
    /\ fc_result = NoContainer

_find_scrollable_container ==
    /\ fc_pc = "call"
    /\ fc_result' = ContainerOf(fc_page)
    /\ fc_pc' = "done"
    /\ UNCHANGED fc_page

NextLocator ==
    \/ _find_scrollable_container /\ UNCHANGED <<coreVars, notLocatorVars>>

SpecLocator == InitLocator /\ [][NextLocator]_vars

(***************************************************************************)
(* find_county_slicer (final_working_downloader_auto.py)                   *)
(***************************************************************************)
MaxSlicerDom == 2        \* most elements of the iframe's document

T_County == <<"C","o","u","n","t","y">>
T_county == <<"c","o","u","n","t","y">>
T_SelectCounty == <<"S","e","l","e","c","t"," ","C","o","u","n","t","y">>
T_countyFilter == <<"c","o","u","n","t","y"," ","f","i","l","t","e","r">>
T_COUNTY == <<"C","O","U","N","T","Y">>
T_Region == <<"R","e","g","i","o","n">>

\* the attributes and text of one element
SlicerAttrs ==
    { [tag |-> "div", aria |-> T_County, title |-> T_Empty, role |-> "combobox",
       slicer |-> TRUE, text |-> T_All],
      [tag |-> "div", aria |-> T_SelectCounty, title |-> T_Empty, role |-> "button",
       slicer |-> FALSE, text |-> T_Empty],
      [tag |-> "div", aria |-> T_countyFilter, title |-> T_Empty, role |-> "none",
       slicer |-> FALSE, text |-> T_Empty],
      [tag |-> "button", aria |-> T_Empty, title |-> T_County, role |-> "none",
       slicer |-> FALSE, text |-> T_Empty],
      [tag |-> "button", aria |-> T_Empty, title |-> T_SelectCounty, role |-> "none",
       slicer |-> FALSE, text |-> T_Empty],
      [tag |-> "div", aria |-> T_Empty, title |-> T_County, role |-> "none",
       slicer |-> FALSE, text |-> T_Region],
      [tag |-> "div", aria |-> T_Empty, title |-> T_Empty, role |-> "none",
       slicer |-> FALSE, text |-> T_COUNTY],
      [tag |-> "div", aria |-> T_Empty, title |-> T_Empty, role |-> "none",
       slicer |-> FALSE, text |-> T_Region] }

\* what el.is_displayed() and el.is_enabled() answer: both true, one of them
\* false, or an exception (a stale element)
SlicerStates == {"usable", "hidden", "raises"}

SlicerPages ==
    UNION { [1..n -> [attrs : SlicerAttrs, state : SlicerStates]] : n \in 0..MaxSlicerDom }

\* lines 907-916: selectors, in the order they are tried
SelectorsSubstringFirst ==
    <<"aria*=County", "aria=County", "aria*=county", "button title=County",
      "button title*=County", "combobox aria*=County", "button-role aria*=County",
      "slicer aria*=County">>

Selectors ==
    <<"aria=County", "aria*=County", "aria*=county", "button title=County",
      "button title*=County", "combobox aria*=County", "button-role aria*=County",
      "slicer aria*=County">>

\* driver.find_elements(By.CSS_SELECTOR, sel) on one element
CssMatches(sel, a) ==
    CASE sel = "aria=County" -> a.aria = T_County
      [] sel = "aria*=County" -> Contains(a.aria, T_County)
      [] sel = "aria*=county" -> Contains(a.aria, T_county)
      [] sel = "button title=County" -> a.tag = "button" /\ a.title = T_County
      [] sel = "button title*=County" -> a.tag = "button" /\ Contains(a.title, T_County)
      [] sel = "combobox aria*=County" -> a.role = "combobox" /\ Contains(a.aria, T_County)
      [] sel = "button-role aria*=County" -> a.role = "button" /\ Contains(a.aria, T_County)
      [] sel = "slicer aria*=County" -> a.slicer /\ Contains(a.aria, T_County)

\* translate(..., 'COUNTY', 'county')
TranslateCounty(s) ==
    [k \in 1..Len(s) |-> IF s[k] \in {"C", "O", "U", "N", "T", "Y"} THEN LowerChar(s[k])
                         ELSE s[k]]

\* lines 927-930: the XPath of the text fallback on one element
XPathMentionsCounty(a) == Contains(TranslateCounty(a.text), T_county)

\* lines 920-925: the first displayed and enabled match of one selector; an
\* element whose test raises is skipped
RECURSIVE FirstUsable(_, _, _)
FirstUsable(page, sel, k) ==
    IF k > Len(page) THEN 0
    ELSE IF CssMatches(sel, page[k].attrs) /\ page[k].state = "usable" THEN k
    ELSE FirstUsable(page, sel, k + 1)

\* lines 932-937: the first displayed and enabled match of the fallback; an
\* element whose test raises ends the search
RECURSIVE FirstUsableByText(_, _)
FirstUsableByText(page, k) ==
    IF k > Len(page) THEN 0
    ELSE IF ~XPathMentionsCounty(page[k].attrs) THEN FirstUsableByText(page, k + 1)
    ELSE IF page[k].state = "raises" THEN 0
    ELSE IF page[k].state = "usable" THEN k
    ELSE FirstUsableByText(page, k + 1)

\* lines 917-939
RECURSIVE FindCountySlicerFrom(_, _)
FindCountySlicerFrom(page, n) ==
    IF n > Len(Selectors)
    THEN LET k == FirstUsableByText(page, 1)
         IN [el |-> k, how |-> IF k = 0 THEN 0 ELSE Len(Selectors) + 1]
    ELSE IF FirstUsable(page, Selectors[n], 1) # 0
    THEN [el |-> FirstUsable(page, Selectors[n], 1), how |-> n]
    ELSE FindCountySlicerFrom(page, n + 1)

InitSlicer ==
    /\ CoreIdle
    /\ TargetsIdle
    /\ ConvIdle
    /\ LocatorIdle
    /\ GuideIdle
    /\ OfferIdle
    /\ fs_pc = "call"
    /\ fs_page \in SlicerPages
    /\ fs_result = 0
    /\ fs_how = 0

\* lines 902-939; driver.find_elements of line 918 is not guarded
find_county_slicer ==
    /\ fs_pc = "call"
    /\ \/ /\ fs_result' = FindCountySlicerFrom(fs_page, 1).el
          /\ fs_how' = FindCountySlicerFrom(fs_page, 1).how
          /\ fs_pc' = "done"
       \/ /\ fs_pc' = "raised"
          /\ UNCHANGED <<fs_result, fs_how>>
    /\ UNCHANGED fs_page

NextSlicer ==
    \/ find_county_slicer /\ UNCHANGED <<coreVars, notSlicerVars>>

SpecSlicer == InitSlicer /\ [][NextSlicer]_vars

(***************************************************************************)
(* WorkflowGuide.run_workflow (workflow_startup.py)                        *)
(***************************************************************************)
total_steps == 5

\* what the user may type at the prompt of get_user_input
RawChoices ==
    { <<>>, <<"b">>, <<"B">>, <<" ", "c">>, <<"c">>, <<"r">>, <<"s">>, <<"q">>,
      <<"n">>, <<"b", "b">> }

\* get_user_input, lines 75-79: the choice a line yields, "invalid" for a
\* line the loop answers by prompting again
GetUserInput(raw) ==
    LET choice == Strip(Lower(raw))
    IN  IF choice = <<>> THEN "n"
        ELSE IF Len(choice) = 1 /\ choice[1] \in {"b", "r", "c", "s", "q"} THEN choice[1]
        ELSE "invalid"

\* the subprocess of step 5 ended with returncode 0; an other step has no
\* such exit
StepOutcomes(step) == IF step = total_steps THEN {"generated", "failed"} ELSE {"shown"}

\* line 578
CanGoBackAlways(step) == TRUE
CanGoBack(step) == step > 1

\* lines 580 and 588
CanGoNext(step) == step < total_steps

InitGuide ==
    /\ CoreIdle
    /\ TargetsIdle
    /\ ConvIdle
    /\ LocatorIdle
    /\ SlicerIdle
    /\ OfferIdle
    /\ g_pc = "step"
    /\ current_step = 1
    /\ completed_steps = {}
    /\ g_choice = "none"
    /\ g_from = 0

\* lines 564-567: the body of the current step; step_5 adds 5 to
\* completed_steps and ends the workflow when the report was generated
RunStep ==
    /\ g_pc = "step"
    /\ \E out \in StepOutcomes(current_step) :
         IF out = "generated"
         THEN /\ completed_steps' = completed_steps \cup {5}
              /\ g_pc' = "done"
         ELSE /\ completed_steps' = completed_steps
              /\ g_pc' = "nav"
    /\ UNCHANGED <<current_step, g_choice, g_from>>

\* lines 570-592: show_navigation, get_user_input and the branch of the choice
Navigate ==
    /\ g_pc = "nav"
    /\ \E raw \in RawChoices :
         LET choice == GetUserInput(raw)
         IN  /\ choice # "invalid"
             /\ g_choice' = choice
             /\ g_from' = current_step
             /\ g_pc' = IF choice = "q" THEN "done" ELSE "step"
             /\ current_step' =
                    IF choice = "b" /\ CanGoBack(current_step) THEN current_step - 1
                    ELSE IF choice = "n" /\ CanGoNext(current_step) THEN current_step + 1
                    ELSE IF choice = "c" /\ CanGoNext(current_step) THEN current_step + 1
                    ELSE current_step
             /\ completed_steps' =
                    IF choice = "c"
                    THEN completed_steps \cup {current_step}
                    ELSE completed_steps

NextGuide ==
    \/ RunStep /\ UNCHANGED <<coreVars, notGuideVars>>
    \/ Navigate /\ UNCHANGED <<coreVars, notGuideVars>>

SpecGuide == InitGuide /\ [][NextGuide]_vars

(***************************************************************************)
(* WorkflowGuide.offer_to_replace_sample_report (workflow_startup.py)      *)
(***************************************************************************)
MaxFileLen == 2      \* most characters of a file

\* the characters of a file: a letter, carriage return, line feed
FileChars == {"x", "\r", "\n"}

FileContents == UNION { [1..n -> FileChars] : n \in 0..MaxFileLen }

\* a path at which os.path.exists is False
NoFile == <<"absent">>

\* os.linesep: POSIX | Windows
LineSeps == { <<"\n">>, <<"\r", "\n">> }

\* open(path, 'r', encoding='utf-8').read(): universal newlines turn \r\n
\* and a lone \r into \n
RECURSIVE ReadText(_)
ReadText(bytes) ==
    IF bytes = <<>> THEN <<>>
    ELSE IF Head(bytes) = "\r"
         THEN IF Len(bytes) > 1 /\ bytes[2] = "\n"
              THEN <<"\n">> \o ReadText(Tail(Tail(bytes)))
              ELSE <<"\n">> \o ReadText(Tail(bytes))
    ELSE <<Head(bytes)>> \o ReadText(Tail(bytes))

\* open(path, 'w', encoding='utf-8').write(text): every \n is written as
\* os.linesep
RECURSIVE WriteText(_, _)
WriteText(text, sep) ==
    IF text = <<>> THEN <<>>
    ELSE (IF Head(text) = "\n" THEN sep ELSE <<Head(text)>>) \o WriteText(Tail(text), sep)

\* what the user may type at the prompt of line 522
OfferAnswers ==
    { <<"y">>, <<"Y">>, <<"y", "e", "s">>, <<"Y", "e", "S">>, <<"n">>, <<>>,
      <<" ", "y">>, <<"y", "e">> }

\* line 522: input(...).lower() in ['yes', 'y']
IsYes(answer) == Lower(answer) \in { <<"y", "e", "s">>, <<"y">> }

\* line 526: f.write(old_content)
BackupContentNew(old, new) == new
BackupContent(old, new) == old

InitOffer ==
    /\ CoreIdle
    /\ TargetsIdle
    /\ ConvIdle
    /\ LocatorIdle
    /\ SlicerIdle
    /\ GuideIdle
    /\ o_pc = "check"
    /\ o_sep \in LineSeps
    /\ o_sample \in FileContents \cup {NoFile}
    /\ o_updated \in FileContents \cup {NoFile}
    /\ o_backup \in {NoFile, <<"x">>}
    /\ o_old_content = <<>>
    /\ o_new_content = <<>>
    /\ o_answer = <<>>
    /\ o_sample0 = o_sample
    /\ o_backup0 = o_backup
    /\ o_events = <<>>

\* lines 451-474: both files must exist, then both are read; a read that
\* raises (a file that is not UTF-8) ends the call in the except clause
OfferCheck ==
    /\ o_pc = "check"
    /\ IF o_updated = NoFile \/ o_sample = NoFile
       THEN /\ o_pc' = "done"
            /\ UNCHANGED <<o_old_content, o_new_content>>
       ELSE \E out \in CallOutcomes :
              IF out = "ok"
              THEN /\ o_old_content' = ReadText(o_sample)
                   /\ o_new_content' = ReadText(o_updated)
                   /\ o_pc' = "ask"
              ELSE /\ o_pc' = "done"
                   /\ UNCHANGED <<o_old_content, o_new_content>>
    /\ UNCHANGED <<o_sep, o_sample, o_updated, o_backup, o_answer, o_sample0,
                   o_backup0, o_events>>

\* lines 476-522 and 538-540: the preview, then the question
OfferAsk ==
    /\ o_pc = "ask"
    /\ o_answer' \in OfferAnswers
    /\ o_pc' = IF IsYes(o_answer') THEN "backup" ELSE "done"
    /\ UNCHANGED <<o_sep, o_sample, o_updated, o_backup, o_old_content,
                   o_new_content, o_sample0, o_backup0, o_events>>

\* lines 524-528: the backup is written; open() that raises leaves the file
\* as it was, write() that raises leaves it truncated
OfferBackup ==
    /\ o_pc = "backup"
    /\ \E out \in {"ok", "raiseOpen", "raiseWrite"} :
         /\ o_backup' = IF out = "ok"
                            THEN WriteText(BackupContent(o_old_content, o_new_content), o_sep)
                         ELSE IF out = "raiseOpen" THEN o_backup
                         ELSE <<>>
         /\ o_events' = IF out = "ok" THEN Append(o_events, "backup") ELSE o_events
         /\ o_pc' = IF out = "ok" THEN "replace" ELSE "done"
    /\ UNCHANGED <<o_sep, o_sample, o_updated, o_old_content, o_new_content,
                   o_answer, o_sample0, o_backup0>>

\* lines 530-537: the sample file is overwritten
OfferReplace ==
    /\ o_pc = "replace"
    /\ \E out \in {"ok", "raiseOpen", "raiseWrite"} :
         /\ o_sample' = IF out = "ok" THEN WriteText(o_new_content, o_sep)
                         ELSE IF out = "raiseOpen" THEN o_sample
                         ELSE <<>>
         /\ o_events' = IF out = "ok" THEN Append(o_events, "sample") ELSE o_events
    /\ o_pc' = "done"
    /\ UNCHANGED <<o_sep, o_updated, o_backup, o_old_content, o_new_content,
                   o_answer, o_sample0, o_backup0>>

NextOffer ==
    \/ OfferCheck /\ UNCHANGED <<coreVars, notOfferVars>>
    \/ OfferAsk /\ UNCHANGED <<coreVars, notOfferVars>>
    \/ OfferBackup /\ UNCHANGED <<coreVars, notOfferVars>>
    \/ OfferReplace /\ UNCHANGED <<coreVars, notOfferVars>>

SpecOffer == InitOffer /\ [][NextOffer]_vars

(***************************************************************************)
(* Claims about select_county                                              *)
(***************************************************************************)
InCycle == pc \in {"locate", "open", "prepare", "deselect", "search", "waitOption", "combo",
                   "clickOption", "listbox", "verify", "reselect", "reread",
                   "decide", "waitSelected", "retry"}

Returned == pc = "done"

\* the longest a cycle can last: every sleep taken and both inner waits run out
MaxCycleTicks ==
    OpenSleep + SearchIconSleep + DeselectSleep + SearchClearSleep + OptionWait
    + AfterOptionSleep + ComboSleep + ClickSleep
    + MaxListboxes * ListboxPasses * ListboxPoll
    + ReselectSleep + SelectedWait + RetrySleep

\* C1: while the iframe is entered on every call and find_county_slicer finds
\* nothing on every call, select_county does nothing but poll, less than one
\* 1-second sleep passes beyond the deadline, and the call returns False.
C1_NeverLocatedReturnsFalseByDeadline ==
    (onlyNotFound /\ pc # "entry") =>
        /\ pc \in {"loopTest", "locate", "exit", "done"}
        /\ now < endT + PollSleep
        /\ (Returned => result = "False")
        /\ ~success

C1_Witness ==
    /\ Returned
    /\ onlyNotFound
    /\ result = "False"
    /\ now >= endT
    /\ now > 0

\* C2: select_county returns True only if some read of the displayed value
\* made during the call contained the target, compared without case; a click
\* or a typed search does not make it True.
C2_TrueOnlyAfterTargetWasRead ==
    (success \/ result = "True") => sawTarget

C2_Witness ==
    /\ Returned
    /\ result = "True"
    /\ clicked
    /\ waitOutcome = "target"

\* C3 as stated: whatever the page does, select_county ends by returning a
\* boolean and never by a raised error.
C3_Original_NeverRaises ==
    pc # "raised"

C5_VerificationDecidesSuccessOrRetry ==
    /\ [](Verified(T_AlamedaCounty, T_Alameda) /\ ~Verified(T_All, T_Alameda))
    /\ [](cycleSawTarget => pc \in {"decide", "exit", "done"} /\ (pc # "decide" => success))
    /\ [](pc = "retry" => ~cycleSawTarget /\ ~success)
    /\ [][(pc = "decide" /\ Verified(selected_value, Target))
            => (success' /\ pc' = "exit")]_vars
    /\ [][(pc = "decide" /\ ~Verified(selected_value, Target))
            => (~success' /\ pc' \in {"waitSelected", "retry"})]_vars
    /\ [][pc = "retry" => (pc' = "loopTest" /\ attempt' = attempt + 1 /\ ~success')]_vars
    /\ [][(pc = "loopTest" /\ now < endT) => pc' = "locate"]_vars

C5_Witness ==
    /\ pc = "retry"
    /\ clicked
    /\ selected_value = T_All
    /\ waitOutcome = "timeout"
    /\ now + RetrySleep < endT

\* C6 as stated: in wait_for_selected_value, a read that differs from
\* previous_value and does not contain the target ends the wait with False.
C6_Original_AnyChangeEndsWait ==
    /\ (waitRead # NotRead /\ waitRead # selected_value /\ ~Verified(waitRead, Target))
          => (pc = "retry" /\ ~success)
    /\ (waitPolled # NotRead => waitPolled = selected_value)

\* C6 as amended: a read of a non-empty text that differs from a non-empty
\* previous_value and does not contain the target ends the wait with False at
\* that read; it is never reported as success.
C6_ChangeFromShownValueEndsWait ==
    /\ (/\ waitRead # NotRead
        /\ selected_value # T_Empty
        /\ waitRead # T_Empty
        /\ waitRead # selected_value
        /\ ~Verified(waitRead, Target))
          => (pc = "retry" /\ waitOutcome = "changed" /\ ~success)
    /\ (waitPolled # NotRead /\ selected_value # T_Empty /\ waitPolled # T_Empty)
          => waitPolled = selected_value

C6_Witness ==
    /\ pc = "retry"
    /\ waitOutcome = "changed"
    /\ selected_value = T_All
    /\ waitRead = T_SanMateo
    /\ ~success

(***************************************************************************)
(* Claims about scroll_to_load_all                                         *)
(***************************************************************************)
\* pages of a static list: K = ceil(N / pageSize), at least the one shown
Pages == IF total = 0 THEN 1 ELSE (total + pageSize - 1) \div pageSize

ScrollLeft == sc_pc \in {"reset", "done"}

\* C7: scroll_to_load_all stops scrolling exactly when three consecutive
\* attempts left the item count unchanged or max_scrolls (20) attempts have
\* been made, whichever comes first: while it is still scrolling neither has
\* happened, once it has stopped one of them has, and it never makes more
\* than 20 attempts (each pass of the loop makes one, so the loop ends).
C7_StopsExactlyAtStreakOrCeiling ==
    /\ i <= MaxScrolls
    /\ (sc_pc = "loop" => unchangedRun < SettleThreshold /\ i < MaxScrolls)
    /\ (ScrollLeft => unchangedRun >= SettleThreshold \/ i = MaxScrolls)
    /\ (ScrollLeft /\ unchangedRun >= SettleThreshold => unchangedRun = SettleThreshold)

C7_Witness ==
    /\ sc_pc = "done"
    /\ exitReason = "stable"
    /\ i > SettleThreshold
    /\ i < MaxScrolls

\* C8: the stability streak counts only consecutive unchanged attempts: an
\* attempt whose count differs from the count before it, by an increase or by
\* a decrease, resets the streak to zero and the call goes on; two unchanged
\* attempts followed by a changed one never end the loop as "stable".
C8_StreakCountsConsecutiveUnchanged ==
    /\ consecutive_same = unchangedRun
    /\ (i > 0 /\ new_count # prev_count => consecutive_same = 0 /\ exitReason # "stable")
    /\ (exitReason = "stable" => unchangedRun >= SettleThreshold)
    /\ (sc_pc \in {"loop", "reset", "done"} /\ i > 0 /\ prevStreak = 2 /\ new_count # prev_count
          => exitReason # "stable")

C8_Witness ==
    /\ sc_pc = "loop"
    /\ prevStreak = 2
    /\ new_count < prev_count
    /\ consecutive_same = 0
    /\ exitReason = "none"

\* C9 as stated: a static list of N items in K pages is brought to N items by
\* one call, whatever K is.
C9_Original_ReachesNWithinCeiling ==
    (listKind = "static" /\ run = 1 /\ sc_pc = "done") => loaded = total

\* C9 as amended: each scroll attempt materializes the next page of a static
\* list, so a call reaches count N when K - 1 <= max_scrolls; a longer list is
\* left at the 21 pages the ceiling allows; the observed count never decreases.
C9_ReachesNWhenPagesFitCeiling ==
    listKind = "static" =>
        /\ ~regressed
        /\ new_count >= prev_count
        /\ (run = 1 /\ sc_pc = "done" /\ Pages - 1 <= MaxScrolls
              => loaded = total /\ i <= MaxScrolls)
        /\ (run = 1 /\ sc_pc = "done" /\ Pages - 1 > MaxScrolls
              => loaded = (MaxScrolls + 1) * pageSize /\ loaded < total)

C9_Witness ==
    /\ listKind = "static"
    /\ run = 1
    /\ sc_pc = "done"
    /\ Pages - 1 = MaxScrolls
    /\ loaded = total
    /\ exitReason = "ceiling"

\* C10: two successive calls on a fully materialized list (scrolling cannot
\* change the count) leave the count unchanged; the second call makes exactly
\* 3 attempts and prints the same item count as the first.
C10_SecondRunSettlesAtThreshold ==
    (run >= 2 /\ prevFull /\ sc_pc = "done") =>
        /\ i = 3
        /\ prevAttempts = 3
        /\ reported = prevReported
        /\ reported = total
        /\ loaded = total

C10_Witness ==
    /\ listKind = "static"
    /\ total > 0
    /\ prevFull
    /\ run = 2
    /\ sc_pc = "done"
    /\ i = 3
    /\ reported = total

\* C11: on every exit of scroll_to_load_all (settled early or ceiling reached,
\* container found or viewport fallback) the last scroll action is the reset of
\* the scrolled surface to its top: the loop leaves the surface scrolled down by
\* the attempts it made, and once the call has returned the surface is at 0.
C11_LastScrollActionIsResetToTop ==
    /\ (sc_pc = "reset" => surfaceTop = i /\ i >= 1)
    /\ (sc_pc = "done" => surfaceTop = 0 /\ exitReason \in {"stable", "ceiling"})

C11_Witness ==
    /\ sc_pc = "done"
    /\ ~container
    /\ exitReason = "ceiling"
    /\ i = MaxScrolls
    /\ surfaceTop = 0

\* the elements of the page with a rendered box whose trimmed text equals the
\* target, and those whose text contains the target without being equal to it
ExactTextElems ==
    { k \in DOMAIN dom : Rendered(dom[k]) /\ Trim(dom[k].text) = FileName }

ContainingTextElems ==
    { k \in DOMAIN dom : /\ Rendered(dom[k])
                         /\ Trim(dom[k].text) # FileName
                         /\ Contains(dom[k].text, FileName) }

\* the element carries the target in aria-label or title, or as its name
AttributeNamesTarget(el) ==
    \/ Contains(el.aria, FileName)
    \/ Contains(el.title, FileName)
    \/ el.name = FileName

BothKindsOnPage == ExactTextElems # {} /\ ContainingTextElems # {}

\* C12 as stated: with a visible exact-text element and a visible element
\* whose text merely contains the target on the page, find_and_click_file
\* delivers its click to an exact-text element and none to a merely-containing one.
C12_Original_ExactTextElementIsClicked ==
    (m_pc = "done" /\ BothKindsOnPage) =>
        /\ clicks # {}
        /\ clicks \subseteq ExactTextElems

\* C12 as amended: at most one click is delivered. When strategy 1 neither
\* raised nor had its click thrown, the click goes to a rendered element whose
\* text equals the target or whose aria-label/title/name names it, and no
\* rendered exact-text element precedes it in document order; a
\* merely-containing element is clicked by strategy 1 only through such an
\* attribute, and when no rendered element but the exact-text ones carries
\* one, an exact-text element is clicked. When strategy 1 failed, only an
\* element narrower than 500 px whose text contains the target can be clicked.
C12_ExactPassClicksFirstCandidate ==
    (m_pc = "done" /\ BothKindsOnPage) =>
        /\ Cardinality(clicks) <= 1
        /\ (m_result = "True") = (clicks # {})
        /\ (~pass1Failed =>
              /\ clicks # {}
              /\ \A k \in clicks :
                    /\ Rendered(dom[k])
                    /\ (k \in ExactTextElems \/ AttributeNamesTarget(dom[k]))
                    /\ \A j \in ExactTextElems : k <= j
              /\ ((\A j \in DOMAIN dom : Rendered(dom[j]) /\ AttributeNamesTarget(dom[j])
                                              => j \in ExactTextElems)
                    => clicks \subseteq ExactTextElems))
        /\ (pass1Failed =>
              \A k \in clicks : /\ Contains(Trim(dom[k].text), FileName)
                                /\ Rendered(dom[k])
                                /\ dom[k].w < 500)

C12_Witness ==
    /\ m_pc = "done"
    /\ Len(dom) = 2
    /\ 1 \in ContainingTextElems
    /\ ~AttributeNamesTarget(dom[1])
    /\ 2 \in ExactTextElems
    /\ clicks = {2}
    /\ ~pass1Failed

\* C13: no matcher delivers a click to an element whose rendered width and
\* height are zero, whatever its text, aria-label or title: neither pass of
\* find_and_click_file nor the option matcher of select_county.
C13_Original_NoClickOnZeroSize ==
    \A k \in clicks : ~(dom[k].w = 0 /\ dom[k].h = 0)

\* C14: safe_click tries the native click first, after a best-effort scroll
\* into view, and the script click only if the native click raised; it makes
\* at most one attempt of each kind, returns True iff one of the two went
\* through, and returns False without another attempt when both raised.
C14_NativeThenScriptOnce ==
    /\ c_nativeN <= 1 /\ c_scriptN <= 1
    /\ (c_pc = "native" => c_scrolled # "none" /\ c_nativeN = 0 /\ c_scriptN = 0)
    /\ (c_pc = "script" => c_native = "raised" /\ c_scriptN = 0)
    /\ (c_script # "none" => c_native = "raised")
    /\ (c_pc = "retTrue" => c_native = "ok" \/ c_script = "ok")
    /\ (c_pc = "retFalse" =>
          /\ c_native = "raised" /\ c_script = "raised"
          /\ c_nativeN = 1 /\ c_scriptN = 1)
    /\ \A n \in DOMAIN c_log :
          /\ c_log[n].result = (c_log[n].native = "ok" \/ c_log[n].script = "ok")
          /\ c_log[n].native # "none"
          /\ (c_log[n].script # "none") = (c_log[n].native = "raised")

C14_Witness ==
    /\ c_pc = "retTrue"
    /\ c_native = "raised"
    /\ c_script = "ok"
    /\ c_nativeN = 1
    /\ c_scriptN = 1
    /\ c_log # <<>>
    /\ ~c_log[1].result

\* C15: in main (auto), files are written for a target only after
\* select_county verified that target's selection; a target whose selection
\* was not verified is skipped and no file is written under its order number.
C15_Original_FilesOnlyForVerifiedTargets ==
    s_prog = "auto" => \A f \in s_written : f.order \in s_verified

\* C16: a failure on one target never prevents the remaining targets from
\* being attempted: when the session has ended, every target of the list has
\* been attempted exactly once, in list order (a session that reached its
\* first target is one whose browser started).
C16_Original_EveryTargetAttempted ==
    (s_pc = "done" /\ s_attempts # <<>>) => s_attempts = [k \in 1..s_n |-> k]

\* C17: the file wait_for_download_complete reports after a download was
\* triggered is one that was not in the directory before the trigger and has
\* non-zero size; a file that already existed is never reported.
C17_Original_ReportsOnlyNewNonEmptyFile ==
    (w_pc = "done" /\ w_result \in FileIds) =>
        /\ w_result \notin w_snapshot
        /\ w_files[w_result] = "full"

\* C20: wait_for_download_complete never returns a file while a *.crdownload
\* exists in the directory, returns only a PNG of size greater than zero,
\* returns None only once its timeout has elapsed, and never runs past its
\* deadline by more than one 0.5 s poll.
C20_Original_NoReturnWhileDownloading ==
    /\ (w_pc = "done" /\ w_result \in FileIds =>
          ~w_partAtReturn /\ w_files[w_result] = "full")
    /\ (w_pc = "done" /\ w_result \notin FileIds => w_now >= w_end)
    /\ (w_pc \notin {"idle", "entry"} => w_now < w_end + DownloadPoll)

\* C18: get_sharepoint_links_from_powerbi makes a single extraction pass and
\* always returns a record of two lists; it returns empty lists rather than
\* raising when the iframe is missing, no anchor matches or the script raises.
C18_Original_AlwaysReturnsLists ==
    /\ l_how # "raisedHarvest"
    /\ l_scripts <= 1
    /\ DOMAIN l_links = {"county", "city"}
    /\ \A g \in {"county", "city"} :
         \A j, k \in 1..Len(l_links[g]) : j < k => l_links[g][j] < l_links[g][k]

Cuts(s) == {0, Len(s) + 1} \cup {k \in 1..Len(s) : s[k] = ","}

\* the comma-free stretch of s that begins after cut a
FieldAfter(s, a) ==
    LET b == CHOOSE c \in Cuts(s) : c > a /\ \A d \in Cuts(s) : d > a => c <= d
    IN SubSeq(s, a + 1, b - 1)

\* the cuts of s that begin a field with something other than blanks in it
KeptCuts(s) == {a \in Cuts(s) \ {Len(s) + 1} : \E k \in 1..Len(FieldAfter(s, a)) : FieldAfter(s, a)[k] # " "}

IsBlank(s) == \A k \in 1..Len(s) : s[k] = " "

\* C21: load_target_counties returns the non-blank comma-separated fields of
\* SALA_COUNTIES in their order, each without leading or trailing blanks,
\* the k-th paired with k; when the variable is unset or blank it returns
\* the four default counties numbered 1 to 4.
C21_NamesInOrderNumberedFromOne ==
    t_pc = "done" =>
        LET s == Getenv(t_env)
        IN /\ \A k \in 1..Len(t_result) : t_result[k][2] = k
           /\ IF IsBlank(s)
              THEN /\ Len(t_result) = 4
                   /\ t_result[1][1] = T_SantaClara
                   /\ t_result[2][1] = T_SanMateo
                   /\ t_result[3][1] = T_Alameda
                   /\ t_result[4][1] = T_SanFrancisco
              ELSE /\ Len(t_result) = Cardinality(KeptCuts(s))
                   /\ \A a \in KeptCuts(s) :
                        LET k == Cardinality({x \in KeptCuts(s) : x < a}) + 1
                            name == t_result[k][1]
                        IN /\ name # <<>>
                           /\ name[1] # " "
                           /\ name[Len(name)] # " "
                           /\ \E m \in 0..(Len(FieldAfter(s, a)) - Len(name)) :
                                /\ SubSeq(FieldAfter(s, a), m + 1, m + Len(name)) = name
                                /\ \A j \in 1..Len(FieldAfter(s, a)) :
                                     (j <= m \/ j > m + Len(name)) => FieldAfter(s, a)[j] = " "

C21_Witness ==
    /\ t_pc = "done"
    /\ t_env = <<" ", "b", ",", ",", "a">>
    /\ t_result = << <<(<<"b">>), 1>>, <<(<<"a">>), 2>> >>

\* the pages of the run's PDFs that come before page g of PDF p, PDFs in
\* sorted order and pages in page order
PagesBefore(p, g) ==
    {q \in (1..Len(cv_pdfs)) \X (1..MaxPages + 1) :
        /\ q[2] <= cv_pdfs[q[1]]
        /\ (q[1] < p \/ (q[1] = p /\ q[2] < g))}

\* C22: the k-th page the converter writes is the k-th page of the run (PDFs
\* in sorted order, pages in page order) and is written as 6(k).png, so the
\* indices start at 1, are contiguous across PDFs and never repeat.
C22_KthPageIsFileK ==
    \A k \in 1..Len(cv_log) :
        /\ cv_log[k].file = k
        /\ Cardinality(PagesBefore(cv_log[k].pdf, cv_log[k].page)) = k - 1

C22_Witness ==
    /\ cv_pc = "exit0"
    /\ Len(cv_pdfs) = 3
    /\ cv_pdfs[1] = 2
    /\ cv_pdfs[2] = 0
    /\ cv_pdfs[3] = 2
    /\ Len(cv_log) = 4
    /\ cv_log[3] = [pdf |-> 3, page |-> 1, file |-> 3]

\* C23: every restart of the selection cycle, whatever caused it, increments
\* the attempt counter by exactly one.
C23_Original_EveryRestartCounted ==
    [][(InCycle /\ (pc' = "loopTest")) => (attempt' = attempt + 1)]_vars

\* ancestor k of the anchor row, below <body>, scrolls: its overflow-y is
\* auto, scroll or overlay and its scrollHeight exceeds its clientHeight
Qualifies(k) ==
    /\ fc_page.chain[k].overflowY # "visible"
    /\ fc_page.chain[k].excess >= 1

\* C24: on a page with an anchor row, _find_scrollable_container returns the
\* nearest ancestor of the row (below <body>) whose overflow-y is auto, scroll
\* or overlay and whose scrollHeight exceeds its clientHeight; only when no
\* such ancestor exists it returns the first fallback element whose
\* scrollHeight exceeds its clientHeight by more than 50 px; otherwise none.
C24_NearestScrollableAncestorElseFallback ==
    (fc_pc = "done" /\ fc_page.row) =>
        LET ancestors == {k \in 1..Len(fc_page.chain) : Qualifies(k)}
            fallbacks == {k \in 1..Len(fc_page.cands) : fc_page.cands[k] >= 51}
        IN IF ancestors # {}
           THEN /\ fc_result.kind = "ancestor"
                /\ fc_result.at \in ancestors
                /\ \A k \in ancestors : fc_result.at <= k
           ELSE IF fallbacks # {}
           THEN /\ fc_result.kind = "fallback"
                /\ fc_result.at \in fallbacks
                /\ \A k \in fallbacks : fc_result.at <= k
           ELSE fc_result = NoContainer

C24_Witness ==
    /\ fc_pc = "done"
    /\ fc_page.row
    /\ Len(fc_page.chain) = 2
    /\ ~Qualifies(1)
    /\ fc_page.chain[1].excess = 1
    /\ fc_page.chain[2].overflowY = "overlay"
    /\ Qualifies(2)
    /\ fc_page.cands = <<51, 51>>
    /\ fc_result = [kind |-> "ancestor", at |-> 2]

\* C25: when the container locator returned none, scroll_to_load_all runs the
\* same bounded settle loop with every scroll step addressed to the window,
\* and finishes with one more window script that puts the window back at
\* its top.
C25_WindowFallbackSameLoop ==
    (~container /\ sc_pc # "start") =>
        /\ i <= MaxScrolls
        /\ (sc_pc \in {"loop", "reset"} => windowScripts = i /\ surfaceTop = i)
        /\ (sc_pc = "loop" => consecutive_same < SettleThreshold /\ i < MaxScrolls)
        /\ (ScrollLeft =>
              \/ exitReason = "stable" /\ consecutive_same = SettleThreshold
              \/ exitReason = "ceiling" /\ i = MaxScrolls /\ consecutive_same < SettleThreshold)
        /\ (sc_pc = "done" => windowScripts = i + 1 /\ surfaceTop = 0)

C25_Witness ==
    /\ ~container
    /\ sc_pc = "done"
    /\ loaded > 0
    /\ exitReason = "stable"
    /\ i = 5
    /\ windowScripts = 6
    /\ surfaceTop = 0

\* the elements of the page that answer displayed and enabled and that the
\* n-th attribute heuristic matches
UsableMatches(n) ==
    {k \in 1..Len(fs_page) :
        fs_page[k].state = "usable" /\ CssMatches(Selectors[n], fs_page[k].attrs)}

\* C26: find_county_slicer returns the first displayed and enabled element of
\* the first heuristic, in the fixed order, that has one; a usable element
\* whose aria-label equals 'County' wins over every element matched only by a
\* substring of aria-label or title; the text fallback yields the result only
\* when no attribute heuristic has a usable element.
C26_FirstUsableOfFirstHeuristic ==
    fs_pc = "done" =>
        LET yielding == {n \in 1..8 : UsableMatches(n) # {}}
        IN /\ (yielding # {} =>
                 /\ fs_how \in yielding
                 /\ \A n \in yielding : fs_how <= n
                 /\ fs_result \in UsableMatches(fs_how)
                 /\ \A k \in UsableMatches(fs_how) : fs_result <= k)
           /\ ((\E k \in 1..Len(fs_page) :
                   fs_page[k].state = "usable" /\ fs_page[k].attrs.aria = T_County)
                 => fs_result # 0 /\ fs_page[fs_result].attrs.aria = T_County)
           /\ (fs_how = 9 =>
                 /\ yielding = {}
                 /\ fs_result # 0
                 /\ fs_page[fs_result].state = "usable"
                 /\ Contains(Lower(fs_page[fs_result].attrs.text), T_county))
           /\ (fs_result = 0 <=> fs_how = 0)
           /\ (fs_how = 0 => yielding = {})

C26_Witness ==
    /\ fs_pc = "done"
    /\ Len(fs_page) = 2
    /\ fs_page[1].attrs.aria = T_SelectCounty
    /\ fs_page[1].state = "usable"
    /\ fs_page[2].attrs.aria = T_County
    /\ fs_page[2].state = "usable"
    /\ fs_result = 2
    /\ fs_how = 1

\* C27: in every cycle that begins with the slicer showing "All", the step
\* that deselects the aggregate option is taken before the name is typed.
C27_Original_DeselectBeforeTyping ==
    [][(pc = "prepare" /\ IsAll(current_value)) => (pc' = "deselect")]_vars

\* the options of the popup that one of the matchers takes for the target
MatchingOptions == FirstMatchingCandidates(dom, Target) \cup ForceMatches(dom, Target)

\* non-zero size and visible style
RenderedOption(el) == el.w > 0 /\ el.h > 0 /\ ~el.hidden

\* C28: when several options match the target and at least one of them is
\* rendered, the option click goes to a rendered match, never to a match
\* that is hidden or has no size.
C28_Original_ClickGoesToRenderedMatch ==
    (/\ Cardinality(MatchingOptions) >= 2
     /\ \E k \in MatchingOptions : RenderedOption(dom[k]))
    => \A k \in clicks : RenderedOption(dom[k])

\* C29: a missing Power BI iframe is recovered from: the step of
\* select_county that calls switch_to_powerbi_iframe (on entry and at the head
\* of each cycle) ends, unless the driver raised, with the iframe's context
\* re-established and the call still running.
C29_Original_MissingIframeIsRecovered ==
    [][((pc \in {"entry", "locate"}) /\ (pc' # "raised"))
         => ((frame' = "powerbi") /\ (pc' # "done"))]_vars

\* C30: a handle obtained before a DOM mutation is not used after it: a
\* scroll step addressed to the container handle is taken only when nothing
\* has been scrolled since _find_scrollable_container returned the handle.
C30_Original_ContainerHandleNotReusedAfterScroll ==
    [][(container /\ (sc_pc = "loop") /\ (i' = i + 1)) => (i = 0)]_vars

\* C31: whenever select_county has returned, on success, on timeout or
\* because the iframe was not found at entry, the driver's frame context is
\* the top-level document.
C31_ReturnsInDefaultContent ==
    pc = "done" => frame = "top" /\ result \in {"True", "False"}

C31_Witness ==
    /\ pc = "done"
    /\ result = "True"
    /\ frame = "top"
    /\ attempt > 0

\* C32: whenever get_sharepoint_links_from_powerbi has returned to
\* wait_for_links, the driver's frame context is the top-level document.
C32_Original_HarvestReturnsInDefaultContent ==
    l_pc = "decide" => l_frame = "top"

\* C33: within one selection cycle at most one strategy activates the option
\* of the target: once the option click has reported success, the listbox
\* scroll-and-click of the same cycle does not click it again.
C33_Original_AtMostOneOptionClick ==
    ~(clicked /\ listbox_clicked)

\* C34: when the value read after locating the control contains the target,
\* select_county leaves the loop at once and returns True: no click, no
\* typing and no sleep lies between that read and the return, so a call on a
\* widget that already shows the target changes nothing.
C34_ShownTargetReturnsTrueUntouched ==
    [][/\ (pc = "locate" /\ Verified(current_value', Target))
            => /\ pc' = "exit"
               /\ success'
               /\ UNCHANGED <<now, typed, clicked, listbox_clicked, attempt>>
       /\ (pc = "exit" /\ success)
            => /\ pc' = "done"
               /\ result' = "True"
               /\ UNCHANGED <<now, typed, clicked, listbox_clicked, attempt>>]_vars

C34_Witness ==
    /\ pc = "done"
    /\ result = "True"
    /\ now = 0
    /\ attempt = 0
    /\ ~clicked
    /\ ~typed
    /\ ~listbox_clicked
    /\ Verified(current_value, Target)

(***************************************************************************)
(* Claims about the browser of a run                                       *)
(***************************************************************************)
\* C35 (as stated): whenever find_and_click_file is invoked for a target the
\* browser shows the file list, also after a target whose download could
\* not be triggered
C35_Original_FileListShownAtEverySearch ==
    (s_prog = "sharepoint" /\ s_pc = "find") => s_view = "list"

\* C36 (as stated): a browser that was created is quit exactly once by the
\* end of the run, on every path, and once it is quit the run is over
C36_Original_SessionQuitExactlyOnce ==
    /\ (s_pc = "done" /\ s_session # "none") => (s_session = "quit" /\ s_quits = 1)
    /\ s_session = "quit" => s_pc = "done"

(***************************************************************************)
(* Claims about WorkflowGuide                                              *)
(***************************************************************************)
\* C37: every step of run_workflow leaves current_step within
\* 1..total_steps (back at step 1 and next at step 5 leave it unchanged)
\* and completed_steps a subset of 1..total_steps that lost nothing
C37_StepInRangeCompletedGrows ==
    [][/\ current_step \in 1..total_steps
       /\ current_step' \in 1..total_steps
       /\ completed_steps \subseteq completed_steps'
       /\ completed_steps' \subseteq 1..total_steps
       /\ (g_pc = "nav" /\ g_choice' = "b" /\ current_step = 1) => (current_step' = 1)
       /\ (g_pc = "nav" /\ g_choice' = "n" /\ current_step = total_steps)
             => (current_step' = total_steps)]_vars

C37_Witness ==
    /\ g_pc = "step"
    /\ g_choice = "b"
    /\ g_from = 1
    /\ current_step = 1
    /\ completed_steps = {1, 3}

\* C38 (as stated): the body of a step is about to run only at the start,
\* after repeat, or after a choice that moved to another step
C38_Original_StepRunsOnlyAfterMoveOrRepeat ==
    g_pc = "step" => (g_choice \in {"none", "r"} \/ current_step # g_from)

\* C39: the sample file is overwritten only after a yes and after the
\* backup was written with the text the sample held; after any other
\* answer, or with a file missing, the sample and the backup are as they were
C39_OverwriteOnlyAfterYesAndBackup ==
    /\ (o_pc = "replace" \/ o_sample # o_sample0)
          => /\ IsYes(o_answer)
             /\ o_events # <<>>
             /\ o_events[1] = "backup"
             /\ ReadText(o_backup) = ReadText(o_sample0)
    /\ (~IsYes(o_answer) \/ o_sample0 = NoFile \/ o_updated = NoFile)
          => (o_sample = o_sample0 /\ o_backup = o_backup0)

C39_Witness ==
    /\ o_pc = "done"
    /\ o_events = <<"backup", "sample">>
    /\ o_answer = <<"Y", "e", "S">>
    /\ o_sample0 = <<"x", "\n">>
    /\ o_backup0 = <<"x">>
    /\ o_backup = WriteText(o_sample0, o_sep)
    /\ o_sample # o_sample0

====
